---- MODULE Spec2Model ----
(***************************************************************************)
(* A state-machine model of the Time-Series-Insight-Assistant core:        *)
(*   TimeSeriesProcessor  (core/data_processor.py)                         *)
(*   ModelIdentifier      (analysis/model_identifier.py)                   *)
(*   TimeSeriesInsight    (api.py), the orchestrating session              *)
(*   the upload / analysis stores of the serving layer (routes/*.py)       *)
(*                                                                         *)
(* Objects are records of their fields, methods are operators from the     *)
(* object and the arguments to the new object and the returned value.      *)
(* Results of the numerical libraries (unit-root tests, ACF/PACF, ARIMA    *)
(* fits) are inputs of the environment, drawn from small sets.             *)
(* Real numbers are fixed-point integers in units of 1/Scale.              *)
(***************************************************************************)
EXTENDS Integers, Sequences, FiniteSets, TLC

VARIABLES
    processor,      \* a stand-alone TimeSeriesProcessor
    proc_call,      \* the last call made on it: operation, arguments, outcome
    identifier,     \* a stand-alone ModelIdentifier
    ident_call,     \* the last call made on it
    env,            \* what the numerical libraries answer for a session's series
    tsi,            \* a TimeSeriesInsight session
    tsi_call,       \* the last call made on it
    heap,           \* serving layer: the TimeSeriesInsight objects, by reference
    uploaded_data_store,      \* routes/upload.py: file_id -> entry
    analysis_results_store,   \* routes/analysis.py: analysis_id -> entry
    uuid4,          \* how many uuids have been drawn
    srv_call,       \* the last request served
    suspended,      \* the coroutines suspended at an await
    middleware,     \* a rate limiting middleware: its settings and its requests
    clock,          \* what time.time() answers
    decisions       \* what the middleware decided, request by request

vars == << processor, proc_call, identifier, ident_call, env, tsi, tsi_call,
           heap, uploaded_data_store, analysis_results_store, uuid4, srv_call,
           suspended, middleware, clock, decisions >>

procVars == << processor, proc_call >>
identVars == << identifier, ident_call >>
sessVars == << env, tsi, tsi_call >>
limitVars == << middleware, clock, decisions >>
srvVars == << heap, uploaded_data_store, analysis_results_store, uuid4, srv_call,
             suspended, limitVars >>

-----------------------------------------------------------------------------
(* Optional values: Python's None and a present value.                     *)
None == << >>
Some(x) == << x >>
IsNone(o) == o = << >>
Val(o) == o[1]

Min(a, b) == IF a <= b THEN a ELSE b
Max(a, b) == IF a >= b THEN a ELSE b
Abs(x) == IF x < 0 THEN -x ELSE x

RECURSIVE SetMax(_)
SetMax(S) == LET x == CHOOSE y \in S : TRUE
             IN IF S = {x} THEN x ELSE Max(x, SetMax(S \ {x}))

-----------------------------------------------------------------------------
(* Bounds of the model.                                                    *)
MaxLen == 3         \* longest raw input series
MaxOrder == 2       \* largest max_order / order argument tried

Values == {0, 1, 3}
\* entries of a series of dtype object: the text that spells the number v, and
\* text that spells no number
NumericText(v) == << v, "text" >>
Junk == << 0, "junk" >>

\* a raw input: observations, some of them missing (None), some of them text
RawSeries ==
    UNION { [1..n -> {Some(v) : v \in Values} \cup {None, NumericText(1), Junk}] : n \in 0..MaxLen }

-----------------------------------------------------------------------------
(* TimeSeriesProcessor                                                     *)

SeasonalPeriod == 12

\* Series.dropna(): the present observations, in order
RECURSIVE DropNa(_)
DropNa(raw) ==
    IF raw = << >> THEN << >>
    ELSE IF IsNone(Head(raw)) THEN DropNa(Tail(raw))
         ELSE << Val(Head(raw)) >> \o DropNa(Tail(raw))

\* pd.to_numeric(entry, errors='coerce'): text that spells no number becomes NaN
ToNumeric(entry) ==
    IF Len(entry) = 2 THEN (IF entry[2] = "text" THEN Some(entry[1]) ELSE None)
    ELSE entry

\* the entries as numbers before the last dropna of _clean_data: a series whose
\* present entries are all numbers is of numeric dtype and kept as it is, any
\* other is passed through pd.to_numeric
Coerced(raw) ==
    IF \A i \in 1..Len(raw) : Len(raw[i]) <= 1 THEN raw
    ELSE [i \in 1..Len(raw) |-> ToNumeric(raw[i])]

\* _clean_data(data)
CleanData(raw) == DropNa(Coerced(raw))

\* a difference taken the wrong way round
DiffLagBackward(s, k) == [i \in 1..(Len(s) - k) |-> s[i] - s[i + k]]

\* Series.diff(periods=k).dropna() of a series without missing values
DiffLag(s, k) == [i \in 1..(Len(s) - k) |-> s[i + k] - s[i]]
Diff(s) == DiffLag(s, 1)

RECURSIVE DiffN(_, _)
DiffN(s, n) == IF n <= 0 THEN s ELSE DiffN(Diff(s), n - 1)

RECURSIVE SeasonalDiffN(_, _)
SeasonalDiffN(s, n) == IF n <= 0 THEN s ELSE SeasonalDiffN(DiffLag(s, SeasonalPeriod), n - 1)

NewProcessor ==
    [ data |-> None, original_data |-> None, differenced_data |-> None,
      diff_order |-> 0, is_stationary |-> FALSE, stationarity_tests |-> None ]

\* the other objects as constructed, the empty dictionary, and no call yet
NewIdentifier ==
    [ acf_values |-> None, pacf_values |-> None, acf_confint |-> None,
      pacf_confint |-> None, recommended_models |-> << >> ]

NewEstimator == [ moment_estimates |-> None, mle_estimates |-> None ]
NewEvaluator == [ fitted_model |-> None, residuals |-> None, evaluation_results |-> None ]

NewSession ==
    [ processor |-> NewProcessor, identifier |-> NewIdentifier,
      estimator |-> NewEstimator, evaluator |-> NewEvaluator,
      data |-> None, index |-> None, analysis_results |-> None ]

EmptyStore == [x \in {} |-> None]

NoCall == [op |-> "none", ok |-> TRUE, args |-> None, ret |-> None]

\* what a call gives back: it returned (ok) or raised, the object afterwards, the value
Returned(obj, value) == [ok |-> TRUE, obj |-> obj, ret |-> value]
Raised(obj) == [ok |-> FALSE, obj |-> obj, ret |-> None]
\* it raised an exception of the class `error`
RaisedError(obj, error) == [ok |-> FALSE, obj |-> obj, ret |-> Some(error)]

\* load_data for a pandas Series / numpy array, followed by _clean_data
ProcLoadData(proc, raw) ==
    LET cleaned == CleanData(raw)
    IN Returned([proc EXCEPT !.data = Some(cleaned), !.original_data = Some(raw)], cleaned)

\* outcomes of one statistical test of the library
TestOutcomes == {"stationary", "nonstationary", "raises"}
Methods == {"adf", "kpss", "both"}

\* a combination that lets either test decide
OverallEither(adf_stationary, kpss_stationary) == adf_stationary \/ kpss_stationary

\* the combined verdict of check_stationarity(method='both')
OverallStationary(adf_stationary, kpss_stationary) ==
    IF adf_stationary /\ kpss_stationary THEN TRUE
    ELSE IF ~adf_stationary /\ ~kpss_stationary THEN FALSE
    ELSE FALSE

\* check_stationarity(alpha, method); adf and kpss are what the two tests answer
CheckStationarity(proc, method, adf, kpss) ==
    IF IsNone(proc.data) THEN Raised(proc)
    ELSE IF method \in {"adf", "both"} /\ adf = "raises" THEN Raised(proc)
    ELSE IF method \in {"kpss", "both"} /\ kpss = "raises" THEN Raised(proc)
    ELSE
      LET adf_stationary == adf = "stationary"
          kpss_stationary == kpss = "stationary"
          overall == IF method = "both" THEN OverallStationary(adf_stationary, kpss_stationary)
                     ELSE IF method = "adf" THEN adf_stationary
                     ELSE kpss_stationary
          results == [ adf |-> IF method \in {"adf", "both"} THEN Some(adf_stationary) ELSE None,
                       kpss |-> IF method \in {"kpss", "both"} THEN Some(kpss_stationary) ELSE None,
                       overall |-> overall ]
      IN Returned([proc EXCEPT !.is_stationary = overall,
                               !.stationarity_tests = Some(results)], results)

\* difference(order, seasonal_order): seasonal differences first
Difference(proc, order, seasonal_order) ==
    IF IsNone(proc.data) THEN Raised(proc)
    ELSE
      LET differenced == DiffN(SeasonalDiffN(Val(proc.data), seasonal_order), order)
      IN Returned([proc EXCEPT !.differenced_data = Some(differenced),
                               !.diff_order = order], differenced)

\* a loop that keeps the last differenced series and order max_order when no
\* order tests stationary
RECURSIVE AutoDiffLoopKeepsLast(_, _, _, _)
AutoDiffLoopKeepsLast(current_data, order, max_order, adf_at) ==
    IF order > max_order THEN [current_data |-> current_data, diff_order |-> max_order]
    ELSE LET differenced == Diff(current_data)
         IN IF adf_at[order] = "stationary"
            THEN [current_data |-> differenced, diff_order |-> order]
            ELSE AutoDiffLoopKeepsLast(differenced, order + 1, max_order, adf_at)

\* a loop that settles on the largest order whose differenced series tests
\* stationary instead of the first
AutoDiffLoopLargest(current_data, order, max_order, adf_at) ==
    LET found == {k \in order..max_order : adf_at[k] = "stationary"}
    IN IF found = {} THEN [current_data |-> current_data, diff_order |-> 0]
       ELSE [ current_data |-> DiffN(current_data, SetMax(found) - order + 1),
              diff_order |-> SetMax(found) ]

\* the loop of auto_difference: adf_at[k] is what the unit-root test answers for
\* the series differenced k times; a raising test is skipped (except: continue)
RECURSIVE AutoDiffLoop(_, _, _, _)
AutoDiffLoop(current_data, order, max_order, adf_at) ==
    IF order > max_order THEN [current_data |-> current_data, diff_order |-> 0]
    ELSE LET differenced == Diff(current_data)
         IN IF adf_at[order] = "stationary"
            THEN [current_data |-> differenced, diff_order |-> order]
            ELSE AutoDiffLoop(differenced, order + 1, max_order, adf_at)

\* auto_difference(max_order, alpha)
AutoDifference(proc, max_order, adf, kpss, adf_at) ==
    IF IsNone(proc.data) THEN Raised(proc)
    ELSE
      LET check == CheckStationarity(proc, "both", adf, kpss)
          p1 == check.obj
      IN IF ~check.ok THEN Raised(p1)
         ELSE IF check.ret.overall
         THEN Returned([p1 EXCEPT !.differenced_data = proc.data, !.diff_order = 0],
                       [data |-> Val(proc.data), order |-> 0])
         ELSE
           LET loop == AutoDiffLoop(Val(proc.data), 1, max_order, adf_at)
               final == IF loop.diff_order = 0
                        THEN [current_data |-> Diff(Val(proc.data)), diff_order |-> 1]
                        ELSE loop
           IN Returned([p1 EXCEPT !.differenced_data = Some(final.current_data),
                                  !.diff_order = final.diff_order],
                       [data |-> final.current_data, order |-> final.diff_order])

-----------------------------------------------------------------------------------------------------------------------------------------------------
(* The processor on its own.  The environment fixes the series offered for *)
(* loading and what the tests answer for it: adf and kpss for the series   *)
(* as loaded, adf_at[k] for the series differenced k times.                *)

Call(op, args, out) ==
    [op |-> op, ok |-> out.ok, args |-> Some(args), ret |-> IF out.ok THEN Some(out.ret) ELSE out.ret]

\* a loaded series without missing values
CleanSeries == UNION { [1..n -> {0, 1}] : n \in 0..MaxLen }

ProcInit ==
    /\ \E series \in CleanSeries, adf \in TestOutcomes, kpss \in TestOutcomes :
        \* the differenced series are only tested when the combined test ran and
        \* did not report stationary
        \E adf_at \in IF adf # "raises" /\ kpss # "raises" /\ ~(adf = "stationary" /\ kpss = "stationary")
                      THEN [1..MaxOrder -> TestOutcomes]
                      ELSE {[k \in 1..MaxOrder |-> "nonstationary"]} :
            env = [series |-> series, adf |-> adf, kpss |-> kpss, adf_at |-> adf_at]
    /\ processor = NewProcessor
    /\ proc_call = NoCall
    /\ identifier = NewIdentifier
    /\ ident_call = NoCall
    /\ tsi = NewSession
    /\ tsi_call = NoCall
    /\ heap = << >>
    /\ uploaded_data_store = EmptyStore
    /\ analysis_results_store = EmptyStore
    /\ uuid4 = 0
    /\ suspended = {}
    /\ middleware = None
    /\ clock = 0
    /\ decisions = << >>
    /\ srv_call = NoCall

ProcDo(op, args, out) ==
    \E done \in {out} :
        /\ processor' = done.obj
        /\ proc_call' = Call(op, args, done)
        /\ UNCHANGED << env, identVars, tsi, tsi_call, srvVars >>

\* load_data(series)
PLoadData ==
    ProcDo("load_data", [none |-> 0],
           ProcLoadData(processor, [i \in 1..Len(env.series) |-> Some(env.series[i])]))

\* check_stationarity(method=...)
PCheckStationarity ==
    \E method \in Methods :
        ProcDo("check_stationarity", [method |-> method],
               CheckStationarity(processor, method, env.adf, env.kpss))

\* auto_difference(max_order=...)
PAutoDifference ==
    \E max_order \in 0..MaxOrder :
        ProcDo("auto_difference", [max_order |-> max_order, data |-> processor.data],
               AutoDifference(processor, max_order, env.adf, env.kpss, env.adf_at))

ProcNext == PLoadData \/ PCheckStationarity \/ PAutoDifference

(* Loading and differencing on their own: the environment fixes the raw    *)
(* input, missing observations included.                                   *)

SeriesInit ==
    /\ \E raw \in RawSeries : env = [series |-> raw]
    /\ processor = NewProcessor
    /\ proc_call = NoCall
    /\ identifier = NewIdentifier
    /\ ident_call = NoCall
    /\ tsi = NewSession
    /\ tsi_call = NoCall
    /\ heap = << >>
    /\ uploaded_data_store = EmptyStore
    /\ analysis_results_store = EmptyStore
    /\ uuid4 = 0
    /\ suspended = {}
    /\ middleware = None
    /\ clock = 0
    /\ decisions = << >>
    /\ srv_call = NoCall

SLoadData ==
    ProcDo("load_data", [none |-> 0], ProcLoadData(processor, env.series))

\* difference(order=..., seasonal_order=...)
SDifference ==
    \E order \in 0..MaxOrder, seasonal_order \in 0..1 :
        ProcDo("difference", [order |-> order, seasonal_order |-> seasonal_order],
               Difference(processor, order, seasonal_order))

SeriesNext == SLoadData \/ SDifference

-----
(* ModelIdentifier                                                         *)

Scale == 100            \* fixed point: the value 1.0
MaxLags == 6            \* most lags of an ACF/PACF profile
MaxArg == 3             \* largest max_p / max_q tried

LagCap == 20            \* lags = min(len(data) // 4, 20)
LagDivisor == 4
Z196 == 196             \* 1.96, in hundredths
AssumedSampleFactor == 10
ZScaled == (Z196 * Scale) \div 100     \* 1.96 in fixed point
CutoffBelow == 3        \* last_significant < 3: cutoff
TailFrom == 5           \* last_significant >= 5: tail-off is considered
TrendWindow == 3        \* values_no_zero[max(0, last_significant-3) : last_significant+1]
TrendSlopeInv == 100    \* trend < -0.01
KeepTop == 10           \* models[:10]

\* confidence scores, in tenths
ConfPattern == 8
ConfArma == 6
ConfLags == 5
ConfCommon == 3

\* significance of the value at index i (lag i-1) of a profile
IsSignificant(values, confint, i) ==
    IF ~IsNone(confint)
    THEN values[i] < Val(confint)[i].lower \/ values[i] > Val(confint)[i].upper
    ELSE LET n == Len(values) * AssumedSampleFactor
         IN \* abs(v) > 1.96 / sqrt(n), squared and cleared of fractions
            values[i] * values[i] * n > ZScaled * ZScaled

\* the lags 1..L that are significant (lag 0 is skipped): np.where(significant)[0] + 1
SignificantLags(values, confint) ==
    { k \in 1..(Len(values) - 1) : IsSignificant(values, confint, k + 1) }

\* a last significant lag counted from one instead of from zero
LastSignificantFromOne(values, confint) ==
    LET lags == { k \in 1..(Len(values) - 1) : IsSignificant(values, confint, k + 1) }
    IN IF lags = {} THEN -1 ELSE SetMax(lags)

\* the loop over significant[1:]: zero-based position of the last significant lag, or -1
LastSignificant(values, confint) ==
    LET lags == SignificantLags(values, confint)
    IN IF lags = {} THEN -1 ELSE SetMax(lags) - 1

RECURSIVE SumSeq(_)
SumSeq(s) == IF s = << >> THEN 0 ELSE Head(s) + SumSeq(Tail(s))

\* np.polyfit(range(m), ys, 1)[0] < -0.01 for fixed-point ys:
\*   slope = (m*Sum(x*y) - Sum(x)*Sum(y)) / (m*Sum(x*x) - Sum(x)^2)
TrendIsDecay(ys) ==
    LET m == Len(ys)
        sx == SumSeq([i \in 1..m |-> i - 1])
        sxx == SumSeq([i \in 1..m |-> (i - 1) * (i - 1)])
        sy == SumSeq(ys)
        sxy == SumSeq([i \in 1..m |-> (i - 1) * ys[i]])
        num == m * sxy - sx * sy
        den == m * sxx - sx * sx
    IN TrendSlopeInv * num < -(den * Scale)

\* a classifier that looks for a decaying trend from the fourth lag on
IdentifyCutoffPatternFromThree(values, confint) ==
    LET lags == SignificantLags(values, confint)
        last_significant == LastSignificant(values, confint)
        first == Max(0, last_significant - TrendWindow)
        recent_values == [i \in 1..(last_significant - first + 1) |-> Abs(values[first + i + 1])]
        pattern_type ==
            IF last_significant = -1 THEN "white_noise"
            ELSE IF last_significant < CutoffBelow THEN "cutoff"
            ELSE IF Len(recent_values) > 1 /\ TrendIsDecay(recent_values) THEN "tailoff"
            ELSE "cutoff"
    IN [ pattern_type |-> pattern_type,
         cutoff_lag |-> IF last_significant = -1 THEN 0 ELSE last_significant + 1,
         last_significant_lag |-> IF last_significant >= 0 THEN last_significant + 1 ELSE 0,
         significant_lags |-> lags,
         max_significant_value |->
             IF lags = {} THEN 0 ELSE SetMax({ Abs(values[k + 1]) : k \in lags }) ]

\* _identify_cutoff_pattern(values, confint)
IdentifyCutoffPattern(values, confint) ==
    LET lags == SignificantLags(values, confint)
        last_significant == LastSignificant(values, confint)
        first == Max(0, last_significant - TrendWindow)
        \* values_no_zero[j] is values[j + 2]
        recent_values == [i \in 1..(last_significant - first + 1) |-> Abs(values[first + i + 1])]
        pattern_type ==
            IF last_significant = -1 THEN "white_noise"
            ELSE IF last_significant < CutoffBelow THEN "cutoff"
            ELSE IF last_significant >= TailFrom
                 THEN IF Len(recent_values) > 1
                      THEN IF TrendIsDecay(recent_values) THEN "tailoff" ELSE "cutoff"
                      ELSE "cutoff"
                 ELSE "cutoff"
    IN [ pattern_type |-> pattern_type,
         cutoff_lag |-> IF last_significant = -1 THEN 0 ELSE last_significant + 1,
         last_significant_lag |-> IF last_significant >= 0 THEN last_significant + 1 ELSE 0,
         significant_lags |-> lags,
         max_significant_value |->
             IF lags = {} THEN 0 ELSE SetMax({ Abs(values[k + 1]) : k \in lags }) ]

Model(order, type, confidence) == [order |-> order, type |-> type, confidence |-> confidence]

Orders(models) == { models[i].order : i \in 1..Len(models) }

\* for p in range(1, min(4, max_p + 1)): for q in range(1, min(4, max_q + 1)): append
RECURSIVE ArmaGrid(_, _, _, _, _)
ArmaGrid(p, q, d, max_p, max_q) ==
    IF p >= Min(4, max_p + 1) THEN << >>
    ELSE IF q >= Min(4, max_q + 1) THEN ArmaGrid(p + 1, 1, d, max_p, max_q)
    ELSE << Model(<< p, d, q >>, "ARMA", ConfArma) >> \o ArmaGrid(p, q + 1, d, max_p, max_q)

\* proposals taken from the significant lags alone, whatever the patterns
PatternModelsLagsOnly(acf_pattern, pacf_pattern, max_p, max_q, d) ==
    LET acf_lags == acf_pattern.significant_lags
        pacf_lags == pacf_pattern.significant_lags
        ar == IF pacf_lags # {}
              THEN << Model(<< Min(SetMax(pacf_lags), max_p), d, 0 >>, "AR", ConfLags) >>
              ELSE << >>
        ma == IF acf_lags # {}
              THEN << Model(<< 0, d, Min(SetMax(acf_lags), max_q) >>, "MA", ConfLags) >>
              ELSE << >>
    IN ar \o ma

\* the first proposals, from the two patterns
PatternModels(acf_pattern, pacf_pattern, max_p, max_q, d) ==
    IF acf_pattern.pattern_type = "cutoff" /\ pacf_pattern.pattern_type = "tailoff"
    THEN LET q == Min(acf_pattern.cutoff_lag, max_q)
         IN IF q > 0 THEN << Model(<< 0, d, q >>, "MA", ConfPattern) >> ELSE << >>
    ELSE IF pacf_pattern.pattern_type = "cutoff" /\ acf_pattern.pattern_type = "tailoff"
    THEN LET p == Min(pacf_pattern.cutoff_lag, max_p)
         IN IF p > 0 THEN << Model(<< p, d, 0 >>, "AR", ConfPattern) >> ELSE << >>
    ELSE IF acf_pattern.pattern_type = "tailoff" /\ pacf_pattern.pattern_type = "tailoff"
    THEN ArmaGrid(1, 1, d, max_p, max_q)
    ELSE
      LET acf_lags == acf_pattern.significant_lags
          pacf_lags == pacf_pattern.significant_lags
          ar == IF pacf_lags # {}
                THEN << Model(<< Min(SetMax(pacf_lags), max_p), d, 0 >>, "AR", ConfLags) >>
                ELSE << >>
          ma == IF acf_lags # {}
                THEN << Model(<< 0, d, Min(SetMax(acf_lags), max_q) >>, "MA", ConfLags) >>
                ELSE << >>
      IN ar \o ma

\* fallback models that are never differenced
CommonModelsUndifferenced(d) ==
    << << 1, 0, 0 >>, << 0, 0, 1 >>, << 1, 0, 1 >>,
       << 2, 0, 0 >>, << 0, 0, 2 >>, << 2, 0, 1 >>, << 1, 0, 2 >> >>

\* the models always tried as a fallback
CommonModels(d) ==
    << << 1, d, 0 >>, << 0, d, 1 >>, << 1, d, 1 >>,
       << 2, d, 0 >>, << 0, d, 2 >>, << 2, d, 1 >>, << 1, d, 2 >> >>

\* for order in common_models: if order not in [m["order"] for m in models]: append
RECURSIVE AppendCommon(_, _)
AppendCommon(models, common) ==
    IF common = << >> THEN models
    ELSE IF Head(common) \in Orders(models) THEN AppendCommon(models, Tail(common))
    ELSE AppendCommon(Append(models, Model(Head(common), "ARIMA", ConfCommon)), Tail(common))

\* models.sort(key=confidence, reverse=True): stable, by insertion
RECURSIVE InsertByConfidence(_, _)
InsertByConfidence(sorted, m) ==
    IF sorted = << >> THEN << m >>
    ELSE IF Head(sorted).confidence >= m.confidence
         THEN << Head(sorted) >> \o InsertByConfidence(Tail(sorted), m)
         ELSE << m >> \o sorted

RECURSIVE SortByConfidence(_)
SortByConfidence(models) ==
    IF models = << >> THEN << >>
    ELSE InsertByConfidence(SortByConfidence(SubSeq(models, 1, Len(models) - 1)),
                            models[Len(models)])

\* a slice that keeps everything
TakeAll(s, n) == s

Take(s, n) == SubSeq(s, 1, Min(Len(s), n))

\* lags = min(len(data) // 4, 20)
LagsFor(data_len) == Min(data_len \div LagDivisor, LagCap)

\* identify_arima_order(data, max_p, max_q, d); acf and pacf are what the library
\* computes for data: values and confidence intervals for lags 0..LagsFor(len(data))
IdentifyArimaOrder(ident, acf, pacf, max_p, max_q, d) ==
    LET acf_pattern == IdentifyCutoffPattern(acf.values, acf.confint)
        pacf_pattern == IdentifyCutoffPattern(pacf.values, pacf.confint)
        models == AppendCommon(PatternModels(acf_pattern, pacf_pattern, max_p, max_q, d),
                               CommonModels(d))
        recommended == Take(SortByConfidence(models), KeepTop)
    IN Returned([ident EXCEPT !.acf_values = Some(acf.values),
                              !.pacf_values = Some(pacf.values),
                              !.acf_confint = acf.confint,
                              !.pacf_confint = pacf.confint,
                              !.recommended_models = recommended],
                recommended)

\* get_analysis_summary(): the two patterns and the stored recommendation
GetAnalysisSummary(ident) ==
    IF IsNone(ident.acf_values) \/ IsNone(ident.pacf_values) THEN None
    ELSE Some([ acf_analysis |-> IdentifyCutoffPattern(Val(ident.acf_values), ident.acf_confint),
                pacf_analysis |-> IdentifyCutoffPattern(Val(ident.pacf_values), ident.pacf_confint),
                recommended_models |-> ident.recommended_models ])

-----------------------------------------------------------------------------
(* Profiles the library can answer with.                                   *)

BandHalf == Scale \div 5    \* half width of a confidence band, fixed point
Levels == { -(3 * Scale) \div 5, 0, (3 * Scale) \div 10, (3 * Scale) \div 5 }
TwoLevels == { 0, (3 * Scale) \div 5 }

\* the values for lags 0..l from those for lags 1..l; lag 0 is always 1.0
LagZero(v) == << Scale >> \o v

\* a band around zero, and the band around the estimate itself
ZeroBand(values) == [i \in 1..Len(values) |-> [lower |-> -BandHalf, upper |-> BandHalf]]
OwnBand(values) ==
    [i \in 1..Len(values) |-> [lower |-> values[i] - BandHalf, upper |-> values[i] + BandHalf]]

Profile(values, confint) == [values |-> values, confint |-> confint]

-----------------------------------------------------------------------------------------------------------------------------------------------------
(* The pattern classifier on its own: the environment fixes the profile,   *)
(* with confidence intervals (around zero, or around the estimate) or      *)
(* without.                                                                *)

PatternInit ==
    /\ \E l \in 0..MaxLags :
         \E v \in [1..l -> Levels], band \in {"none", "zero", "own"} :
            LET values == LagZero(v)
            IN env = Profile(values, IF band = "none" THEN None
                                     ELSE IF band = "zero" THEN Some(ZeroBand(values))
                                     ELSE Some(OwnBand(values)))
    /\ identifier = NewIdentifier
    /\ ident_call = NoCall
    /\ processor = NewProcessor
    /\ proc_call = NoCall
    /\ tsi = NewSession
    /\ tsi_call = NoCall
    /\ heap = << >>
    /\ uploaded_data_store = EmptyStore
    /\ analysis_results_store = EmptyStore
    /\ uuid4 = 0
    /\ suspended = {}
    /\ middleware = None
    /\ clock = 0
    /\ decisions = << >>
    /\ srv_call = NoCall

\* _identify_cutoff_pattern(values, confint)
IPattern ==
    /\ ident_call' = [op |-> "pattern", ok |-> TRUE, args |-> Some(env),
                      ret |-> Some(IdentifyCutoffPattern(env.values, env.confint))]
    /\ UNCHANGED << identifier, env, procVars, tsi, tsi_call, srvVars >>

(* The identifier on its own: the environment fixes the ACF and the PACF   *)
(* the library computes for the series, with their confidence bands, and   *)
(* the arguments of the call.  The profiles are those whose significant    *)
(* lags lie within one trend window: the lags before the window do not     *)
(* enter the classification.                                               *)

WindowProfiles(l) ==
    { v \in [1..l -> TwoLevels] :
        \A i, j \in 1..l : (i < j /\ v[i] # 0 /\ v[j] # 0) => j - i <= TrendWindow }

DValues == {0, 1}

IdentInit ==
    /\ \E a \in WindowProfiles(MaxLags), p \in WindowProfiles(MaxLags) :
         \E max_p \in 0..MaxArg, max_q \in 0..MaxArg, d \in DValues :
            env = [ acf |-> Profile(LagZero(a), Some(ZeroBand(LagZero(a)))),
                    pacf |-> Profile(LagZero(p), Some(ZeroBand(LagZero(p)))),
                    max_p |-> max_p, max_q |-> max_q, d |-> d ]
    /\ identifier = NewIdentifier
    /\ ident_call = NoCall
    /\ processor = NewProcessor
    /\ proc_call = NoCall
    /\ tsi = NewSession
    /\ tsi_call = NoCall
    /\ heap = << >>
    /\ uploaded_data_store = EmptyStore
    /\ analysis_results_store = EmptyStore
    /\ uuid4 = 0
    /\ suspended = {}
    /\ middleware = None
    /\ clock = 0
    /\ decisions = << >>
    /\ srv_call = NoCall

\* identify_arima_order(data, max_p, max_q, d)
IIdentify ==
    LET out == IdentifyArimaOrder(identifier, env.acf, env.pacf, env.max_p, env.max_q, env.d)
    IN /\ identifier' = out.obj
       /\ ident_call' = Call("identify", [max_p |-> env.max_p, max_q |-> env.max_q, d |-> env.d], out)
       /\ UNCHANGED << env, procVars, tsi, tsi_call, srvVars >>

-----------------------------------------------------------------------------------------------------------------------------------------------------
(* ParameterEstimator and ModelEvaluator, as far as the session uses them: *)
(* whether the ARIMA fit of an order succeeds, and its AIC, are answers of *)
(* the library.                                                            *)

DefaultMaxP == 5
DefaultMaxQ == 5

\* the branch of estimate_parameters taken for the 'moments' method
MomentsMethod(order) ==
    IF order[1] > 0 /\ order[3] = 0 THEN "ar"
    ELSE IF order[1] = 0 /\ order[3] > 0 THEN "ma"
    ELSE IF order[1] > 0 /\ order[3] > 0 THEN "arma_unsupported"
    ELSE "invalid"

\* a fitted ARIMA model: the handle kept for forecasting
FittedModel(order, data) == [order |-> order, nobs |-> Len(data)]

\* estimate_mle(data, order): mle_ok is whether the fit succeeds
EstimateMle(data, order, mle_ok) ==
    IF mle_ok THEN [success |-> TRUE, order |-> order, fitted_model |-> Some(FittedModel(order, data))]
    ELSE [success |-> FALSE, order |-> order, fitted_model |-> None]

\* Sample moments are kept exact, as fractions [num, den]; den = 0 is the NaN
\* numpy gives for the mean of nothing or a variance of one observation.
Fraction(num, den) == [num |-> num, den |-> den]

\* data - data.mean(), times len(data)
Centred(data) == [t \in 1..Len(data) |-> Len(data) * data[t] - SumSeq(data)]

\* gamma[k] of estimate_ar_moments.  gamma[0] is np.var(centered, ddof=1).  For
\* k > 0 the two slices centered[:-k] and centered[k:] are pandas Series and
\* their product pairs the entries of equal index label, which are the labels
\* k .. n-k-1 present in both; np.mean then skips the unpaired ones.
Autocovariance(data, k) ==
    LET n == Len(data)
        c == Centred(data)
    IN IF k = 0
       THEN Fraction(SumSeq([t \in 1..n |-> c[t] * c[t]]), n * n * (n - 1))
       ELSE LET paired == IF n - 2 * k > 0 THEN n - 2 * k ELSE 0
            IN Fraction(SumSeq([j \in 1..paired |-> c[k + j] * c[k + j]]), n * n * paired)

\* a / b for fractions (0 for a zero b, as the code's guard for gamma[0])
Ratio(a, b) ==
    IF b.num = 0 THEN Fraction(0, 1) ELSE Fraction(a.num * b.den, a.den * b.num)

\* the result of a moments estimator; `estimator` names the function that made it
MomentsResult(estimator, order, success, ar_params, ma_params, autocovariances, error) ==
    [ estimator |-> estimator, order |-> order, success |-> success,
      ar_params |-> ar_params, ma_params |-> ma_params,
      autocovariances |-> autocovariances, error |-> error ]

\* estimate_ar_moments(data, p).  gamma[k] of the code is gamma[k + 1] here.
\* For p = 1 the coefficient is put in a Python list, for p > 1 it is the
\* ndarray np.linalg.solve returns (kept symbolic); the result is built with
\* phi.tolist(), which a list does not have: the AttributeError is caught by
\* the method's except clause and reported as a failure.
EstimateArMoments(data, p) ==
    IF p <= 0
    THEN MomentsResult("ar", <<p, 0, 0>>, FALSE, << >>, << >>, << >>, Some("order"))
    ELSE LET gamma == [k \in 1..(p + 1) |-> Autocovariance(data, k - 1)]
             phi == IF p = 1
                    THEN [type |-> "list", items |-> << Ratio(gamma[2], gamma[1]) >>]
                    ELSE [type |-> "ndarray",
                          items |-> [i \in 1..p |-> [yule_walker |-> i]]]
         IN IF phi.type # "ndarray"
            THEN MomentsResult("ar", <<p, 0, 0>>, FALSE, << >>, << >>, << >>,
                               Some("AttributeError"))
            ELSE MomentsResult("ar", <<p, 0, 0>>, TRUE, phi.items, << >>, gamma, None)

\* estimate_ma_moments(data, q): ma_ok is whether the library's sample ACF and
\* the fit to it go through; the parameters are kept symbolic
EstimateMaMoments(data, q, ma_ok) ==
    IF q <= 0
    THEN MomentsResult("ma", <<0, 0, q>>, FALSE, << >>, << >>, << >>, Some("order"))
    ELSE IF ma_ok
    THEN MomentsResult("ma", <<0, 0, q>>, TRUE, << >>,
                       [i \in 1..q |-> [acf_fit |-> i]], << >>, None)
    ELSE MomentsResult("ma", <<0, 0, q>>, FALSE, << >>, << >>, << >>, Some("acf"))

\* an estimate_parameters that takes the AR estimator whenever p > 0
EstimateParametersArFirst(est, data, order, mle_ok, ma_ok) ==
    LET diff_data == DiffN(data, order[2])
        moments ==
            IF order[1] > 0 THEN EstimateArMoments(diff_data, order[1])
            ELSE IF order[3] > 0 THEN EstimateMaMoments(diff_data, order[3], ma_ok)
            ELSE MomentsResult("none", order, FALSE, << >>, << >>, << >>, Some("invalid_order"))
        results == [ moments |-> moments, mle |-> EstimateMle(data, order, mle_ok) ]
    IN Returned([est EXCEPT !.moment_estimates = Some(results.moments),
                            !.mle_estimates = Some(results.mle)], results)

\* estimate_parameters(data, order) with the default methods ['moments', 'mle']:
\* the moments are taken of the series differenced d times, the MLE of the series
EstimateParametersWith(est, data, order, mle_ok, ma_ok) ==
    LET diff_data == DiffN(data, order[2])
        moments ==
            IF MomentsMethod(order) = "ar" THEN EstimateArMoments(diff_data, order[1])
            ELSE IF MomentsMethod(order) = "ma"
            THEN EstimateMaMoments(diff_data, order[3], ma_ok)
            ELSE IF MomentsMethod(order) = "arma_unsupported"
            THEN MomentsResult("none", order, FALSE, << >>, << >>, << >>,
                               Some("arma_unsupported"))
            ELSE MomentsResult("none", order, FALSE, << >>, << >>, << >>, Some("invalid_order"))
        results == [ moments |-> moments, mle |-> EstimateMle(data, order, mle_ok) ]
    IN Returned([est EXCEPT !.moment_estimates = Some(results.moments),
                            !.mle_estimates = Some(results.mle)], results)

\* estimate_parameters(data, order) as the session calls it
EstimateParameters(est, data, order, mle_ok) ==
    EstimateParametersWith(est, data, order, mle_ok, TRUE)

\* What the library answers for a fit, as the record `fit`:
\*   success    the ARIMA fit and the statistics taken from it all go through
\*   stage      where a failing fit_model raises: "fit" in model.fit, "resid"
\*              between storing the fitted model and storing its residuals,
\*              "stats" after both are stored; "done" for a success
\*   aic        the AIC, r_squared the R-squared in hundredths
\*   stats      the residual statistics and test p-values (hundredths), None
\*              when computing them raises inside analyze_residuals
\*   mle        whether the estimator's own MLE fit succeeds
Stats(mean, std, skewness, kurtosis, jarque_bera, ljung_box) ==
    [ basic_stats |-> [mean |-> mean, std |-> std, skewness |-> skewness, kurtosis |-> kurtosis],
      normality_tests |-> [jarque_bera |-> jarque_bera],
      autocorr_tests |-> [ljung_box |-> ljung_box] ]

\* residuals that pass every diagnostic
CleanStats == Stats(0, Scale, 0, 0, Some(Scale \div 2), Some(Scale \div 2))

\* fit_model(data, order)
FitModel(ev, data, order, fit) ==
    IF fit.success
    THEN Returned([ev EXCEPT !.fitted_model = Some(FittedModel(order, data)),
                             !.residuals = Some(order)],
                  [ success |-> TRUE, order |-> order, aic |-> fit.aic,
                    r_squared |-> fit.r_squared, error |-> None ])
    ELSE LET stored == IF fit.stage = "fit" THEN ev
                       ELSE [ev EXCEPT !.fitted_model = Some(FittedModel(order, data))]
             after == IF fit.stage = "stats" THEN [stored EXCEPT !.residuals = Some(order)]
                      ELSE stored
         IN Returned(after, [ success |-> FALSE, order |-> order, aic |-> 0,
                              r_squared |-> 0, error |-> Some("fit_failed") ])

\* the penalties without the one for the kurtosis
PenaltiesWithoutKurtosis(basic_stats, normality_tests, autocorr_tests) ==
    SelectSeq(
      << [ applies |-> 10 * Abs(basic_stats.mean) > basic_stats.std,
           issue |-> "mean_off_zero", penalty |-> 10 ],
         [ applies |-> /\ ~IsNone(normality_tests.jarque_bera)
                       /\ ~(Val(normality_tests.jarque_bera) > 5),
           issue |-> "not_normal", penalty |-> 15 ],
         [ applies |-> /\ ~IsNone(autocorr_tests.ljung_box)
                       /\ ~(Val(autocorr_tests.ljung_box) > 5),
           issue |-> "autocorrelated", penalty |-> 20 ],
         [ applies |-> Abs(basic_stats.skewness) > Scale,
           issue |-> "skewness", penalty |-> 10 ] >>,
      LAMBDA c : c.applies)

\* _assess_residuals: the checks in the order the code makes them, each with the
\* issue it reports and the points it costs; a test that raised has no verdict
\* and costs nothing (is_normal = p > 0.05, is_white_noise = p > 0.05)
Penalties(basic_stats, normality_tests, autocorr_tests) ==
    SelectSeq(
      << [ applies |-> 10 * Abs(basic_stats.mean) > basic_stats.std,
           issue |-> "mean_off_zero", penalty |-> 10 ],
         [ applies |-> /\ ~IsNone(normality_tests.jarque_bera)
                       /\ ~(Val(normality_tests.jarque_bera) > 5),
           issue |-> "not_normal", penalty |-> 15 ],
         [ applies |-> /\ ~IsNone(autocorr_tests.ljung_box)
                       /\ ~(Val(autocorr_tests.ljung_box) > 5),
           issue |-> "autocorrelated", penalty |-> 20 ],
         [ applies |-> Abs(basic_stats.skewness) > Scale,
           issue |-> "skewness", penalty |-> 10 ],
         [ applies |-> Abs(basic_stats.kurtosis) > 3 * Scale,
           issue |-> "kurtosis", penalty |-> 10 ] >>,
      LAMBDA c : c.applies)

\* _assess_residuals(basic_stats, normality_tests, autocorr_tests); the grades
\* are the code's 优秀, 良好, 一般, 较差
AssessResiduals(basic_stats, normality_tests, autocorr_tests) ==
    LET found == Penalties(basic_stats, normality_tests, autocorr_tests)
        score == 100 - SumSeq([i \in 1..Len(found) |-> found[i].penalty])
    IN [ score |-> score,
         grade |-> IF score >= 90 THEN "excellent"
                   ELSE IF score >= 75 THEN "good"
                   ELSE IF score >= 60 THEN "fair"
                   ELSE "poor",
         issues |-> [i \in 1..Len(found) |-> found[i].issue] ]

\* analyze_residuals(): the diagnostics of the residuals the evaluator holds
AnalyzeResiduals(ev, stats) ==
    IF IsNone(ev.residuals) \/ IsNone(stats)
    THEN [ error |-> Some("residual_analysis_failed"), residuals |-> ev.residuals,
           overall_assessment |-> None ]
    ELSE [ error |-> None, residuals |-> ev.residuals,
           overall_assessment |-> Some(AssessResiduals(Val(stats).basic_stats,
                                                       Val(stats).normality_tests,
                                                       Val(stats).autocorr_tests)) ]

\* an adequacy score that rounds the residual share instead of truncating it
AssessModelAdequacyRounded(fit_result, residual_analysis) ==
    LET r_squared == fit_result.r_squared
        tier == IF r_squared > 80 THEN 20
                ELSE IF r_squared > 60 THEN 15
                ELSE IF r_squared > 40 THEN 10
                ELSE 5
        residual == IF IsNone(residual_analysis.overall_assessment) THEN 0
                    ELSE (Val(residual_analysis.overall_assessment).score * 6 + 5) \div 10
        adequacy_percentage == Min(20 + tier + residual, 100)
    IN [ score |-> adequacy_percentage,
         level |-> IF adequacy_percentage >= 85 THEN "high"
                   ELSE IF adequacy_percentage >= 70 THEN "medium"
                   ELSE IF adequacy_percentage >= 55 THEN "fair"
                   ELSE "low" ]

\* _assess_model_adequacy(fit_result, residual_analysis); the levels are the
\* code's 高, 中等, 一般, 低
AssessModelAdequacy(fit_result, residual_analysis) ==
    LET r_squared == fit_result.r_squared
        tier == IF r_squared > 80 THEN 20
                ELSE IF r_squared > 60 THEN 15
                ELSE IF r_squared > 40 THEN 10
                ELSE 5
        residual == IF IsNone(residual_analysis.overall_assessment) THEN 0
                    ELSE (Val(residual_analysis.overall_assessment).score * 6) \div 10
        adequacy_percentage == Min(20 + tier + residual, 100)
    IN [ score |-> adequacy_percentage,
         level |-> IF adequacy_percentage >= 85 THEN "high"
                   ELSE IF adequacy_percentage >= 70 THEN "medium"
                   ELSE IF adequacy_percentage >= 55 THEN "fair"
                   ELSE "low" ]

\* a report that analyses the residuals whether or not the fit succeeded
GenerateEvaluationReportUnguarded(ev, data, order, fit) ==
    LET fit_result == FitModel(ev, data, order, fit)
        residual_analysis == AnalyzeResiduals(fit_result.obj, fit.stats)
        report == [ success |-> fit_result.ret.success, order |-> order,
                    aic |-> fit_result.ret.aic, error |-> fit_result.ret.error,
                    residual_analysis |-> Some(residual_analysis),
                    model_adequacy |-> Some(AssessModelAdequacy(fit_result.ret,
                                                                residual_analysis)) ]
    IN Returned([fit_result.obj EXCEPT !.evaluation_results = Some(report)], report)

\* generate_evaluation_report(data, order): the report of a failed fit carries
\* the error and nothing else, and is not kept
GenerateEvaluationReport(ev, data, order, fit) ==
    LET fit_result == FitModel(ev, data, order, fit)
    IN IF ~fit_result.ret.success
       THEN Returned(fit_result.obj,
                     [ success |-> FALSE, order |-> order, aic |-> 0,
                       error |-> fit_result.ret.error,
                       residual_analysis |-> None, model_adequacy |-> None ])
       ELSE LET residual_analysis == AnalyzeResiduals(fit_result.obj, fit.stats)
                report == [ success |-> TRUE, order |-> order,
                            aic |-> fit_result.ret.aic, error |-> None,
                            residual_analysis |-> Some(residual_analysis),
                            model_adequacy |-> Some(AssessModelAdequacy(fit_result.ret,
                                                                        residual_analysis)) ]
            IN Returned([fit_result.obj EXCEPT !.evaluation_results = Some(report)], report)

-----------------------------------------------------------------------------
(* TimeSeriesInsight                                                       *)

DefaultMaxOrder == 3    \* auto_difference(max_order=3)

\* the index of a loaded series (self.data.index): positions, or timestamps with
\* the frequency pandas knows for them, if any
RangeIndex == [kind |-> "range", times |-> << >>, freq |-> None]
DateIndex(times, freq) == [kind |-> "date", times |-> times, freq |-> freq]

\* the entries of seq at the positions where raw has a value (dropna on the index)
RECURSIVE KeepWhereValue(_, _)
KeepWhereValue(seq, raw) ==
    IF seq = << >> THEN << >>
    ELSE IF IsNone(Head(raw)) THEN KeepWhereValue(Tail(seq), Tail(raw))
    ELSE << Head(seq) >> \o KeepWhereValue(Tail(seq), Tail(raw))

\* load_data(data) for a series carrying the index `index`
LoadIndexed(sess, raw, index) ==
    LET out == ProcLoadData(sess.processor, raw)
        kept == IF index.kind = "date"
                THEN DateIndex(KeepWhereValue(index.times, Coerced(raw)),
                               IF Len(out.ret) = Len(raw) THEN index.freq ELSE None)
                ELSE index
    IN Returned([sess EXCEPT !.processor = out.obj, !.data = Some(out.ret),
                             !.index = Some(kept)], out.ret)

\* load_data(data) for a series without dates
LoadData(sess, raw) == LoadIndexed(sess, raw, RangeIndex)

\* a loop that retains every candidate, whatever its evaluation reports
RECURSIVE EvaluateModelsKeepAll(_, _, _, _, _, _, _)
EvaluateModelsKeepAll(candidates, i, data, fits, est, ev, evaluated_models) ==
    IF i > Len(candidates)
    THEN [estimator |-> est, evaluator |-> ev, evaluated_models |-> evaluated_models]
    ELSE
      LET model_info == candidates[i]
          order == model_info.order
          estimation == EstimateParameters(est, data, order, fits[i].mle)
          evaluation == GenerateEvaluationReport(ev, data, order, fits[i])
          model_result == [ order |-> order, model_info |-> model_info,
                            estimation |-> estimation.ret, evaluation |-> evaluation.ret ]
      IN EvaluateModelsKeepAll(candidates, i + 1, data, fits, estimation.obj, evaluation.obj,
                               Append(evaluated_models, model_result))

\* the loop of analyze over recommended_models[:n_models], from candidate i on:
\* the estimator, the evaluator and the evaluated models so far are carried along
RECURSIVE EvaluateModels(_, _, _, _, _, _, _)
EvaluateModels(candidates, i, data, fits, est, ev, evaluated_models) ==
    IF i > Len(candidates)
    THEN [estimator |-> est, evaluator |-> ev, evaluated_models |-> evaluated_models]
    ELSE
      LET model_info == candidates[i]
          order == model_info.order
          estimation == EstimateParameters(est, data, order, fits[i].mle)
          evaluation == GenerateEvaluationReport(ev, data, order, fits[i])
          model_result == [ order |-> order, model_info |-> model_info,
                            estimation |-> estimation.ret, evaluation |-> evaluation.ret ]
      IN EvaluateModels(candidates, i + 1, data, fits, estimation.obj, evaluation.obj,
                        IF evaluation.ret.success THEN Append(evaluated_models, model_result)
                        ELSE evaluated_models)

\* a minimum that lets a later candidate of equal AIC win
RECURSIVE MinByAicLast(_, _)
MinByAicLast(best, rest) ==
    IF rest = << >> THEN best
    ELSE IF Head(rest).evaluation.aic <= best.evaluation.aic THEN MinByAicLast(Head(rest), Tail(rest))
    ELSE MinByAicLast(best, Tail(rest))

\* min(evaluated_models, key=aic): the first element whose key is the smallest
RECURSIVE MinByAic(_, _)
MinByAic(best, rest) ==
    IF rest = << >> THEN best
    ELSE IF Head(rest).evaluation.aic < best.evaluation.aic THEN MinByAic(Head(rest), Tail(rest))
    ELSE MinByAic(best, Tail(rest))

BestModel(evaluated_models) ==
    IF evaluated_models = << >> THEN None
    ELSE Some(MinByAic(Head(evaluated_models), Tail(evaluated_models)))

\* analyze(auto_diff, max_p, max_q, n_models); e is the environment: what the
\* tests, the ACF/PACF and the fits answer for the loaded series
Analyze(sess, auto_diff, max_p, max_q, n_models, e) ==
    IF IsNone(sess.data) THEN Raised(sess)
    ELSE
      LET check == CheckStationarity(sess.processor, "both", e.adf, e.kpss)
      IN IF ~check.ok THEN Raised(sess)
         ELSE
           LET differ == IF auto_diff /\ ~check.obj.is_stationary
                         THEN AutoDifference(check.obj, DefaultMaxOrder, e.adf, e.kpss, e.adf_at)
                         ELSE Returned(check.obj, [data |-> Val(sess.data), order |-> 0])
               differencing == [ applied |-> auto_diff /\ ~check.obj.is_stationary,
                                 order |-> differ.ret.order,
                                 differenced_data |-> differ.ret.data ]
               ident == IdentifyArimaOrder(sess.identifier, e.acf, e.pacf, max_p, max_q,
                                           differ.ret.order)
               loop == EvaluateModels(Take(ident.ret, n_models), 1, Val(sess.data), e.fits,
                                      sess.estimator, sess.evaluator, << >>)
               results == [ stationarity |-> check.ret,
                            differencing |-> differencing,
                            recommended_models |-> ident.ret,
                            model_evaluation |-> loop.evaluated_models,
                            best_model |-> BestModel(loop.evaluated_models) ]
           IN Returned([sess EXCEPT !.processor = differ.obj,
                                    !.identifier = ident.obj,
                                    !.estimator = loop.estimator,
                                    !.evaluator = loop.evaluator,
                                    !.analysis_results = Some(results)], results)

\* get_best_model()
GetBestModel(sess) ==
    IF IsNone(sess.analysis_results) THEN None
    ELSE Val(sess.analysis_results).best_model

\* a forecast index that starts at the last observation instead of after it
ForecastIndexFromLast(data, index, steps) ==
    IF index.kind = "date"
    THEN IF IsNone(index.freq) /\ Len(index.times) < 2 THEN None
         ELSE LET last == index.times[Len(index.times)]
                  freq == IF ~IsNone(index.freq) THEN Val(index.freq)
                          ELSE last - index.times[Len(index.times) - 1]
              IN Some([i \in 1..steps |-> last + (i - 1) * freq])
    ELSE Some([i \in 1..steps |-> Len(data) + i - 2])

\* the index given to the forecast: for a date index the dates from the last one
\* on, stepped by the index's frequency or, when it has none, by the distance of
\* the last two dates; otherwise range(len(data), len(data) + steps).  None when
\* a date index without frequency has no two dates to take the distance of.
ForecastIndex(data, index, steps) ==
    IF index.kind = "date"
    THEN IF IsNone(index.freq) /\ Len(index.times) < 2 THEN None
         ELSE LET last == index.times[Len(index.times)]
                  freq == IF ~IsNone(index.freq) THEN Val(index.freq)
                          ELSE last - index.times[Len(index.times) - 1]
              IN Some([i \in 1..steps |-> (last + freq) + (i - 1) * freq])
    ELSE Some([i \in 1..steps |-> Len(data) + i - 1])

\* fitted_model.forecast(steps): the 1..steps ahead forecasts of the fitted handle
Forecast(fitted_model, steps) ==
    [i \in 1..steps |-> [model |-> fitted_model.order, ahead |-> i]]

\* pd.Series(forecast, index=forecast_index): one entry per index label
ForecastSeries(forecast, forecast_index) ==
    [i \in 1..Len(forecast_index) |-> [index |-> forecast_index[i], value |-> forecast[i]]]

\* a predict that answers an empty forecast when there is no best model
PredictWithoutBest(sess, steps) ==
    LET best_model == IF IsNone(sess.analysis_results) THEN None
                      ELSE Val(sess.analysis_results).best_model
    IN IF IsNone(best_model)
       THEN Returned(sess, [forecast |-> << >>, forecast_index |-> << >>,
                            model_order |-> << >>, forecast_steps |-> steps])
       ELSE IF ~IsNone(Val(best_model).estimation.mle.fitted_model)
       THEN LET forecast_index == ForecastIndex(Val(sess.data), Val(sess.index), steps)
            IN IF IsNone(forecast_index) THEN Raised(sess)
               ELSE Returned(sess,
                      [ forecast |-> ForecastSeries(
                            Forecast(Val(Val(best_model).estimation.mle.fitted_model), steps),
                            Val(forecast_index)),
                        forecast_index |-> Val(forecast_index),
                        model_order |-> Val(best_model).order,
                        forecast_steps |-> steps ])
       ELSE Raised(sess)

\* a predict that forecasts from the best model's order when its estimation
\* holds no fitted handle
PredictUncheckedHandle(sess, steps) ==
    LET best_model == GetBestModel(sess)
    IN IF IsNone(best_model) THEN RaisedError(sess, "ValueError")
       ELSE LET forecast_index == ForecastIndex(Val(sess.data), Val(sess.index), steps)
            IN IF IsNone(forecast_index) THEN RaisedError(sess, "IndexError")
               ELSE Returned(sess,
                      [ forecast |-> ForecastSeries(
                            Forecast([order |-> Val(best_model).order], steps),
                            Val(forecast_index)),
                        forecast_index |-> Val(forecast_index),
                        model_order |-> Val(best_model).order,
                        forecast_steps |-> steps ])

\* predict(steps, alpha): the forecast of the best model's fitted handle, as a
\* series over the forecast index; ValueError without a best model or without
\* its handle, IndexError when a date index has no two dates
Predict(sess, steps) ==
    LET best_model == GetBestModel(sess)
    IN IF IsNone(best_model) THEN RaisedError(sess, "ValueError")
       ELSE IF ~IsNone(Val(best_model).estimation.mle.fitted_model)
       THEN LET forecast_index == ForecastIndex(Val(sess.data), Val(sess.index), steps)
            IN IF IsNone(forecast_index) THEN RaisedError(sess, "IndexError")
               ELSE Returned(sess,
                      [ forecast |-> ForecastSeries(
                            Forecast(Val(Val(best_model).estimation.mle.fitted_model), steps),
                            Val(forecast_index)),
                        forecast_index |-> Val(forecast_index),
                        model_order |-> Val(best_model).order,
                        forecast_steps |-> steps ])
       ELSE RaisedError(sess, "ValueError")

\* get_summary(): what it reports of the analysis
GetSummary(sess) ==
    IF IsNone(sess.analysis_results) THEN None
    ELSE LET r == Val(sess.analysis_results)
         IN Some([ length |-> Len(Val(sess.data)),
                   is_stationary |-> r.stationarity.overall,
                   differencing |-> [applied |-> r.differencing.applied, order |-> r.differencing.order],
                   best_model |-> IF IsNone(r.best_model) THEN None
                                  ELSE Some([ order |-> Val(r.best_model).order,
                                              aic |-> Val(r.best_model).evaluation.aic ]) ])

-----------------------------------------------------------------------------
(* One session.  The environment fixes what the libraries answer: the two  *)
(* tests, the unit-root test of the differenced series, the ACF/PACF, and  *)
(* for the i-th candidate evaluated whether its fits succeed and its AIC.  *)

MaxNModels == 2         \* largest n_models tried
AicValues == {1, 2}     \* the AIC of a successful fit
StepsTried == {1, 2}    \* the steps asked of predict

\* the i-th candidate: whether the evaluator's fit succeeds, its AIC, and
\* whether the estimator's MLE fit succeeds
FitOutcomes ==
    { [ success |-> FALSE, stage |-> "fit", aic |-> 0, r_squared |-> 0,
        stats |-> None, mle |-> FALSE ] } \cup
    { [ success |-> TRUE, stage |-> "done", aic |-> a, r_squared |-> Scale - 10,
        stats |-> Some(CleanStats), mle |-> m ] : a \in AicValues, m \in BOOLEAN }

\* the profile of a session's series: the library's band is centred on the
\* estimate
WhiteProfile == Profile(LagZero([k \in 1..MaxLags |-> 0]),
                        Some(OwnBand(LagZero([k \in 1..MaxLags |-> 0]))))

SessSeries == { << 0, 1, 3, 1 >> }

SessInit ==
    /\ \E adf \in TestOutcomes :
         \E first \in IF adf = "nonstationary" THEN {0, 1, DefaultMaxOrder} ELSE {0} :
         \E fits \in [1..MaxNModels -> FitOutcomes] :
            \* kpss answers as adf does; the k-times differenced series tests
            \* stationary from k = first on (never when first = 0)
            env = [ adf |-> adf, kpss |-> IF adf = "raises" THEN "stationary" ELSE adf,
                    adf_at |-> [k \in 1..DefaultMaxOrder |->
                                  IF first > 0 /\ k >= first THEN "stationary" ELSE "nonstationary"],
                    acf |-> WhiteProfile,
                    pacf |-> WhiteProfile,
                    fits |-> fits ]
    /\ tsi = NewSession
    /\ tsi_call = NoCall
    /\ processor = NewProcessor
    /\ proc_call = NoCall
    /\ identifier = NewIdentifier
    /\ ident_call = NoCall
    /\ heap = << >>
    /\ uploaded_data_store = EmptyStore
    /\ analysis_results_store = EmptyStore
    /\ uuid4 = 0
    /\ suspended = {}
    /\ middleware = None
    /\ clock = 0
    /\ decisions = << >>
    /\ srv_call = NoCall

TsiDo(op, args, out) ==
    \E done \in {out} :
        /\ tsi' = done.obj
        /\ tsi_call' = Call(op, args, done)
        /\ UNCHANGED << env, procVars, identVars, srvVars >>

\* load_data(series)
TLoadData ==
    \E series \in SessSeries :
        TsiDo("load_data", [none |-> 0], LoadData(tsi, [i \in 1..Len(series) |-> Some(series[i])]))

\* analyze(auto_diff, max_p, max_q, n_models)
TAnalyze ==
    \E auto_diff \in BOOLEAN, n_models \in 1..MaxNModels :
        TsiDo("analyze", [auto_diff |-> auto_diff, n_models |-> n_models],
              Analyze(tsi, auto_diff, DefaultMaxP, DefaultMaxQ, n_models, env))

\* get_best_model()
TGetBestModel ==
    TsiDo("get_best_model", [none |-> 0], Returned(tsi, GetBestModel(tsi)))

\* predict(steps)
TPredict ==
    \E steps \in StepsTried :
        TsiDo("predict", [steps |-> steps], Predict(tsi, steps))

SessNext == TLoadData \/ TAnalyze \/ TGetBestModel \/ TPredict

-----------------------------------------------------------------------------

(* The evaluator of a session, called on its own                            *)

EvalOrders == { <<1, 0, 0>>, <<0, 0, 1>> }
EvalSeries == <<0, 1, 3, 1>>

\* residuals off centre, not normal and autocorrelated
PoorStats == Stats(Scale, Scale, 0, 0, Some(1), Some(1))

EvalFitOutcomes ==
    { [ success |-> FALSE, stage |-> st, aic |-> 0, r_squared |-> 0,
        stats |-> None, mle |-> FALSE ] : st \in {"fit", "resid", "stats"} } \cup
    { [ success |-> TRUE, stage |-> "done", aic |-> 1, r_squared |-> Scale \div 2,
        stats |-> st, mle |-> TRUE ] : st \in {None, Some(CleanStats), Some(PoorStats)} }

EvalInit ==
    /\ \E fits \in [EvalOrders -> EvalFitOutcomes] : env = [fits |-> fits]
    /\ tsi = NewSession
    /\ tsi_call = NoCall
    /\ processor = NewProcessor
    /\ proc_call = NoCall
    /\ identifier = NewIdentifier
    /\ ident_call = NoCall
    /\ heap = << >>
    /\ uploaded_data_store = EmptyStore
    /\ analysis_results_store = EmptyStore
    /\ uuid4 = 0
    /\ suspended = {}
    /\ middleware = None
    /\ clock = 0
    /\ decisions = << >>
    /\ srv_call = NoCall

\* the outcome of a call on the session's evaluator, as an outcome of the session
OnEvaluator(sess, out) ==
    [ok |-> out.ok, obj |-> [sess EXCEPT !.evaluator = out.obj], ret |-> out.ret]

\* evaluator.fit_model(data, order)
EFitModel ==
    \E order \in EvalOrders :
        TsiDo("fit_model", [order |-> order],
              OnEvaluator(tsi, FitModel(tsi.evaluator, EvalSeries, order, env.fits[order])))

\* evaluator.analyze_residuals(): the statistics are those of the residuals held
EAnalyzeResiduals ==
    TsiDo("analyze_residuals", [none |-> 0],
          Returned(tsi, AnalyzeResiduals(tsi.evaluator,
                                         IF IsNone(tsi.evaluator.residuals) THEN None
                                         ELSE env.fits[Val(tsi.evaluator.residuals)].stats)))

\* evaluator.generate_evaluation_report(data, order)
EGenerateEvaluationReport ==
    \E order \in EvalOrders :
        TsiDo("generate_evaluation_report", [order |-> order],
              OnEvaluator(tsi, GenerateEvaluationReport(tsi.evaluator, EvalSeries, order,
                                                        env.fits[order])))

EvalNext == EFitModel \/ EAnalyzeResiduals \/ EGenerateEvaluationReport

-----------------------------------------------------------------------------

(* The estimator of a session, called on its own                            *)

EstOrders == (0..MaxOrder) \X {0, 1} \X (0..MaxOrder)

EstInit ==
    /\ \E series \in CleanSeries, mle_ok \in BOOLEAN, ma_ok \in BOOLEAN :
            env = [series |-> series, mle_ok |-> mle_ok, ma_ok |-> ma_ok]
    /\ tsi = NewSession
    /\ tsi_call = NoCall
    /\ processor = NewProcessor
    /\ proc_call = NoCall
    /\ identifier = NewIdentifier
    /\ ident_call = NoCall
    /\ heap = << >>
    /\ uploaded_data_store = EmptyStore
    /\ analysis_results_store = EmptyStore
    /\ uuid4 = 0
    /\ suspended = {}
    /\ middleware = None
    /\ clock = 0
    /\ decisions = << >>
    /\ srv_call = NoCall

\* the outcome of a call on the session's estimator, as an outcome of the session
OnEstimator(sess, out) ==
    [ok |-> out.ok, obj |-> [sess EXCEPT !.estimator = out.obj], ret |-> out.ret]

\* estimator.estimate_parameters(data, order)
EEstimateParameters ==
    \E order \in EstOrders :
        TsiDo("estimate_parameters", [order |-> order],
              OnEstimator(tsi, EstimateParametersWith(tsi.estimator, env.series, order,
                                                      env.mle_ok, env.ma_ok)))

\* estimator.estimate_ar_moments(data, p)
EEstimateArMoments ==
    \E p \in 0..MaxOrder :
        TsiDo("estimate_ar_moments", [p |-> p],
              Returned(tsi, EstimateArMoments(env.series, p)))

EstNext == EEstimateParameters \/ EEstimateArMoments

-----------------------------------------------------------------------------

(* The residual assessment as a function of the diagnostics                 *)

Means == {-2 * (Scale \div 10), -(Scale \div 10), 0, Scale \div 10, (Scale \div 10) + 1}
Stds == {0, Scale}
Skewnesses == {-(Scale + 1), -Scale, 0, Scale, Scale + 1}
Kurtoses == {-(3 * Scale + 1), 0, 3 * Scale, 3 * Scale + 1}
PValues == {None, Some(4), Some(5), Some(6)}

ResidualsInit ==
    /\ \E mean \in Means, std \in Stds, skewness \in Skewnesses, kurtosis \in Kurtoses :
         \E jarque_bera \in PValues, ljung_box \in PValues :
            env = Stats(mean, std, skewness, kurtosis, jarque_bera, ljung_box)
    /\ tsi = NewSession
    /\ tsi_call = NoCall
    /\ processor = NewProcessor
    /\ proc_call = NoCall
    /\ identifier = NewIdentifier
    /\ ident_call = NoCall
    /\ heap = << >>
    /\ uploaded_data_store = EmptyStore
    /\ analysis_results_store = EmptyStore
    /\ uuid4 = 0
    /\ suspended = {}
    /\ middleware = None
    /\ clock = 0
    /\ decisions = << >>
    /\ srv_call = NoCall

\* evaluator._assess_residuals(basic_stats, normality_tests, autocorr_tests)
EAssessResiduals ==
    TsiDo("_assess_residuals", [none |-> 0],
          Returned(tsi, AssessResiduals(env.basic_stats, env.normality_tests,
                                        env.autocorr_tests)))

-----------------------------------------------------------------------------

(* The adequacy score as a function of R-squared and the residual score    *)

RSquareds == { -(Scale \div 10), 0, 2 * (Scale \div 5), 2 * (Scale \div 5) + 1,
               3 * (Scale \div 5), 3 * (Scale \div 5) + 1,
               4 * (Scale \div 5), 4 * (Scale \div 5) + 1, Scale }
ResidualScores == 0..100

AdequacyInit ==
    /\ \E r_squared \in RSquareds :
         \E overall_assessment \in {None} \cup { Some([score |-> sc]) : sc \in ResidualScores } :
            env = [ fit_result |-> [r_squared |-> r_squared],
                    residual_analysis |-> [overall_assessment |-> overall_assessment] ]
    /\ tsi = NewSession
    /\ tsi_call = NoCall
    /\ processor = NewProcessor
    /\ proc_call = NoCall
    /\ identifier = NewIdentifier
    /\ ident_call = NoCall
    /\ heap = << >>
    /\ uploaded_data_store = EmptyStore
    /\ analysis_results_store = EmptyStore
    /\ uuid4 = 0
    /\ suspended = {}
    /\ middleware = None
    /\ clock = 0
    /\ decisions = << >>
    /\ srv_call = NoCall

\* evaluator._assess_model_adequacy(fit_result, residual_analysis)
EAssessModelAdequacy ==
    TsiDo("_assess_model_adequacy", [none |-> 0],
          Returned(tsi, AssessModelAdequacy(env.fit_result, env.residual_analysis)))

-----------------------------------------------------------------------------

(* Forecasting sessions: series with and without dates                     *)

MaxSteps == 2   \* forecast horizons tried are 1..MaxSteps
MaxTime == 2    \* timestamps are 0..MaxTime

ForecastSeriesLengths == {1, 3}

\* the indexes a series of n observations can carry: positions, or n dates of
\* which no two neighbours are equal, with a frequency only when evenly spaced
Indexes(n) ==
    {RangeIndex} \cup
    { DateIndex(times, None) :
        times \in { t \in [1..n -> 0..MaxTime] : \A i \in 1..(n - 1) : t[i] # t[i + 1] } } \cup
    { DateIndex([i \in 1..n |-> se[1] + (i - 1) * se[2]], Some(se[2])) :
        se \in { x \in (0..MaxTime) \X (1..MaxTime) : x[1] + (n - 1) * x[2] <= MaxTime } }

ForecastInit ==
    /\ \E fits \in [1..MaxNModels -> { f \in FitOutcomes : f.success /\ f.mle }] :
            env = [ adf |-> "stationary", kpss |-> "stationary",
                    adf_at |-> [k \in 1..DefaultMaxOrder |-> "stationary"],
                    acf |-> WhiteProfile,
                    pacf |-> WhiteProfile,
                    fits |-> fits ]
    /\ tsi = NewSession
    /\ tsi_call = NoCall
    /\ processor = NewProcessor
    /\ proc_call = NoCall
    /\ identifier = NewIdentifier
    /\ ident_call = NoCall
    /\ heap = << >>
    /\ uploaded_data_store = EmptyStore
    /\ analysis_results_store = EmptyStore
    /\ uuid4 = 0
    /\ suspended = {}
    /\ middleware = None
    /\ clock = 0
    /\ decisions = << >>
    /\ srv_call = NoCall

\* load_data(series) for a series of ones under any of its indexes
FLoadData ==
    \E n \in ForecastSeriesLengths :
      \E index \in Indexes(n) :
        TsiDo("load_data", [none |-> 0], LoadIndexed(tsi, [i \in 1..n |-> Some(1)], index))

\* analyze(n_models)
FAnalyze ==
    \E n_models \in 1..MaxNModels :
        TsiDo("analyze", [auto_diff |-> TRUE, n_models |-> n_models],
              Analyze(tsi, TRUE, DefaultMaxP, DefaultMaxQ, n_models, env))

\* predict(steps)
FPredict ==
    \E steps \in 1..MaxSteps :
        TsiDo("predict", [steps |-> steps], Predict(tsi, steps))

ForecastNext == FLoadData \/ FAnalyze \/ FPredict

-----------------------------------------------------------------------------
(* The serving layer: routes/upload.py and routes/analysis.py.  The stores *)
(* are dictionaries keyed by uuid4 strings; a stored "tsi" is a reference  *)
(* to a TimeSeriesInsight object, modelled as an index into heap.  The n-th *)
(* uuid drawn is n.                                                        *)

MaxIds == 3             \* uuids drawn in a run

HttpOk == 200
HttpNotFound == 404
HttpServerError == 500

Response(status, ret) == [status |-> status, ret |-> ret]

\* the dictionary d with key k bound to v
Put(d, k, v) == [x \in DOMAIN d \cup {k} |-> IF x = k THEN v ELSE d[x]]
\* the key stays in the dictionary
DelKeeps(d, k) == d
\* del d[k]
Del(d, k) == [x \in DOMAIN d \ {k} |-> d[x]]
\* the ids a request may name: those of the store, every id drawn so far, and
\* one that was never drawn
IdsOf(store) == DOMAIN store \cup (0..uuid4)

SrvSeries == { << 0, 1, 3, 1 >> }

ServerInit ==
    /\ \E adf \in {"nonstationary", "raises"} :
         \E fits \in [1..MaxNModels -> { o \in FitOutcomes : o.success /\ o.mle }] :
            env = [ adf |-> adf, kpss |-> IF adf = "raises" THEN "stationary" ELSE adf,
                    adf_at |-> [k \in 1..DefaultMaxOrder |-> "stationary"],
                    acf |-> WhiteProfile,
                    pacf |-> WhiteProfile,
                    fits |-> fits,
                    analysis_requests |-> [auto_diff : BOOLEAN, n_models : 1..MaxNModels] ]
    /\ heap = << >>
    /\ uploaded_data_store = EmptyStore
    /\ analysis_results_store = EmptyStore
    /\ uuid4 = 0
    /\ suspended = {}
    /\ middleware = None
    /\ clock = 0
    /\ decisions = << >>
    /\ srv_call = NoCall
    /\ processor = NewProcessor
    /\ proc_call = NoCall
    /\ identifier = NewIdentifier
    /\ ident_call = NoCall
    /\ tsi = NewSession
    /\ tsi_call = NoCall

\* the same start for one environment: a series the tests find non-stationary
\* and whose candidates are all fitted alike, and clients that ask for one
\* model with automatic differencing
StoresInit ==
    /\ env = [ adf |-> "nonstationary", kpss |-> "nonstationary",
               adf_at |-> [k \in 1..DefaultMaxOrder |-> "stationary"],
               acf |-> WhiteProfile,
               pacf |-> WhiteProfile,
               fits |-> [i \in 1..MaxNModels |->
                           CHOOSE o \in FitOutcomes : o.success /\ o.mle /\ o.aic = SetMax(AicValues)],
               analysis_requests |-> {[auto_diff |-> TRUE, n_models |-> 1]} ]
    /\ heap = << >>
    /\ uploaded_data_store = EmptyStore
    /\ analysis_results_store = EmptyStore
    /\ uuid4 = 0
    /\ suspended = {}
    /\ middleware = None
    /\ clock = 0
    /\ decisions = << >>
    /\ srv_call = NoCall
    /\ processor = NewProcessor
    /\ proc_call = NoCall
    /\ identifier = NewIdentifier
    /\ ident_call = NoCall
    /\ tsi = NewSession
    /\ tsi_call = NoCall

SrvCall(op, id, response) ==
    /\ srv_call' = [op |-> op, ok |-> response.status = HttpOk, args |-> Some(id), ret |-> Some(response)]
    /\ UNCHANGED << env, procVars, identVars, tsi, tsi_call, limitVars >>

\* POST /upload/file, up to `await file.read()`: a fresh file_id is drawn and
\* the handler is suspended
upload_file ==
    LET file_id == uuid4 + 1
    IN /\ uuid4 < MaxIds
       /\ uuid4' = file_id
       /\ suspended' = suspended \cup {file_id}
       /\ UNCHANGED << env, procVars, identVars, tsi, tsi_call, limitVars,
                       heap, uploaded_data_store, analysis_results_store, srv_call >>

\* POST /upload/file, from `await file.read()` on: a new TimeSeriesInsight loads
\* the series and is stored under the file_id
upload_file_resume ==
    \E file_id \in suspended, series \in SrvSeries :
        LET loaded == LoadData(NewSession, [i \in 1..Len(series) |-> Some(series[i])])
        IN /\ suspended' = suspended \ {file_id}
           /\ heap' = Append(heap, loaded.obj)
           /\ uploaded_data_store' = Put(uploaded_data_store, file_id,
                                         [tsi |-> Len(heap) + 1, data |-> loaded.ret])
           /\ SrvCall("upload_file", file_id, Response(HttpOk, [file_id |-> file_id]))
           /\ UNCHANGED << analysis_results_store, uuid4 >>

\* POST /analysis/{file_id}: the stored tsi analyzes, and the same tsi is stored
\* with the results under a fresh analysis_id
analyze_time_series ==
    \E file_id \in IdsOf(uploaded_data_store), request \in env.analysis_requests :
      LET auto_diff == request.auto_diff
          n_models == request.n_models
      IN
        IF file_id \notin DOMAIN uploaded_data_store
        THEN /\ SrvCall("analyze_time_series", file_id, Response(HttpNotFound, None))
             /\ UNCHANGED << heap, uploaded_data_store, analysis_results_store, uuid4, suspended >>
        ELSE
          \E out \in { Analyze(heap[uploaded_data_store[file_id].tsi], auto_diff,
                                 DefaultMaxP, DefaultMaxQ, n_models, env) } :
          LET tsi_ref == uploaded_data_store[file_id].tsi
              analysis_id == uuid4 + 1
          IN IF ~out.ok
             THEN /\ SrvCall("analyze_time_series", file_id, Response(HttpServerError, None))
                  /\ UNCHANGED << heap, uploaded_data_store, analysis_results_store, uuid4, suspended >>
             ELSE /\ uuid4 < MaxIds
                  /\ uuid4' = analysis_id
                  /\ heap' = [heap EXCEPT ![tsi_ref] = out.obj]
                  /\ analysis_results_store' =
                        Put(analysis_results_store, analysis_id,
                            [ file_id |-> file_id, tsi |-> tsi_ref, results |-> out.ret,
                              analysis_params |-> [auto_diff |-> auto_diff, n_models |-> n_models] ])
                  /\ SrvCall("analyze_time_series", file_id,
                             Response(HttpOk, [analysis_id |-> analysis_id]))
                  /\ UNCHANGED << uploaded_data_store, suspended >>

\* GET /analysis/{analysis_id}/summary
get_analysis_summary ==
    \E analysis_id \in IdsOf(analysis_results_store) :
        /\ IF analysis_id \notin DOMAIN analysis_results_store
           THEN SrvCall("get_analysis_summary", analysis_id, Response(HttpNotFound, None))
           ELSE SrvCall("get_analysis_summary", analysis_id,
                        Response(HttpOk, GetSummary(heap[analysis_results_store[analysis_id].tsi])))
        /\ UNCHANGED << heap, uploaded_data_store, analysis_results_store, uuid4, suspended >>

\* POST /analysis/{analysis_id}/predict
predict_time_series ==
    \E analysis_id \in IdsOf(analysis_results_store), steps \in StepsTried :
        /\ IF analysis_id \notin DOMAIN analysis_results_store
           THEN SrvCall("predict_time_series", analysis_id, Response(HttpNotFound, None))
           ELSE LET out == Predict(heap[analysis_results_store[analysis_id].tsi], steps)
                IN IF out.ok
                   THEN SrvCall("predict_time_series", analysis_id, Response(HttpOk, Some(out.ret)))
                   ELSE SrvCall("predict_time_series", analysis_id, Response(HttpServerError, None))
        /\ UNCHANGED << heap, uploaded_data_store, analysis_results_store, uuid4, suspended >>

\* export_results(file_path, format): the results are written to the file
ExportResults(sess) ==
    IF IsNone(sess.analysis_results) THEN RaisedError(sess, "ValueError")
    ELSE Returned(sess, None)

\* POST /analysis/{analysis_id}/export
export_analysis_results ==
    \E analysis_id \in IdsOf(analysis_results_store) :
        /\ IF analysis_id \notin DOMAIN analysis_results_store
           THEN SrvCall("export_analysis_results", analysis_id, Response(HttpNotFound, None))
           ELSE IF ExportResults(heap[analysis_results_store[analysis_id].tsi]).ok
                THEN SrvCall("export_analysis_results", analysis_id, Response(HttpOk, None))
                ELSE SrvCall("export_analysis_results", analysis_id, Response(HttpServerError, None))
        /\ UNCHANGED << heap, uploaded_data_store, analysis_results_store, uuid4, suspended >>

\* DELETE /analysis/{analysis_id}
delete_analysis_result ==
    \E analysis_id \in IdsOf(analysis_results_store) :
        /\ IF analysis_id \notin DOMAIN analysis_results_store
           THEN /\ SrvCall("delete_analysis_result", analysis_id, Response(HttpNotFound, None))
                /\ UNCHANGED analysis_results_store
           ELSE /\ analysis_results_store' = Del(analysis_results_store, analysis_id)
                /\ SrvCall("delete_analysis_result", analysis_id, Response(HttpOk, None))
        /\ UNCHANGED << heap, uploaded_data_store, uuid4, suspended >>

\* DELETE /upload/{file_id}
delete_uploaded_file ==
    \E file_id \in IdsOf(uploaded_data_store) :
        /\ IF file_id \notin DOMAIN uploaded_data_store
           THEN /\ SrvCall("delete_uploaded_file", file_id, Response(HttpNotFound, None))
                /\ UNCHANGED uploaded_data_store
           ELSE /\ uploaded_data_store' = Del(uploaded_data_store, file_id)
                /\ SrvCall("delete_uploaded_file", file_id, Response(HttpOk, None))
        /\ UNCHANGED << heap, analysis_results_store, uuid4, suspended >>

ServerNext ==
    \/ upload_file
    \/ upload_file_resume
    \/ analyze_time_series
    \/ get_analysis_summary
    \/ predict_time_series
    \/ export_analysis_results
    \/ delete_analysis_result
    \/ delete_uploaded_file

-----------------------------------------------------------------------------
(* Rate limiting (src/middleware/rate_limiting.py).  Time is counted in     *)
(* whole seconds and never runs backwards; a path is the sequence of its   *)
(* characters; `requests` maps a client id to the deque of the times       *)
(* recorded for it.  The body of dispatch runs without interruption up to  *)
(* `await call_next(request)`, and so does one round of the cleanup task.  *)

MaxClock == 2           \* the last second of a run
MaxRequests == 3        \* requests that arrive in a run

HttpTooManyRequests == 429

CallsTried == {1, 2}
PeriodsTried == {1, 2}
Paths == { << "/", "h", "z" >>, << "/", "a" >> }
ExcludePaths == << << "/", "h" >> >>

\* a request: its path, its X-Forwarded-For and X-Real-IP headers, its peer
HttpRequests ==
    [ path : Paths, forwarded_for : {None, Some(<< "a", "b" >>)},
      real_ip : {None}, host : {Some("b")} ]

\* path.startswith(prefix)
StartsWith(path, prefix) ==
    Len(prefix) <= Len(path) /\ SubSeq(path, 1, Len(prefix)) = prefix

\* any(request.url.path.startswith(path) for path in self.exclude_paths)
IsExcluded(mw, request) ==
    \E i \in 1..Len(mw.exclude_paths) : StartsWith(request.path, mw.exclude_paths[i])

NewRateLimitingMiddleware(calls, period, per_ip, exclude_paths) ==
    [ calls |-> calls, period |-> period, per_ip |-> per_ip,
      exclude_paths |-> exclude_paths, requests |-> EmptyStore ]

GetClientId(mw, request) ==
    IF mw.per_ip
    THEN IF ~IsNone(request.forwarded_for) THEN Head(Val(request.forwarded_for))
         ELSE IF ~IsNone(request.real_ip) THEN Val(request.real_ip)
         ELSE IF ~IsNone(request.host) THEN Val(request.host)
         ELSE "unknown"
    ELSE "global"

\* self.requests[client_id] of a defaultdict(deque): a missing key reads as an
\* empty deque (and the read stores it)
Deque(requests, client_id) ==
    IF client_id \in DOMAIN requests THEN requests[client_id] ELSE << >>

\* while q and q[0] < window_start: q.popleft()
RECURSIVE PopExpired(_, _)
PopExpired(q, window_start) ==
    IF q # << >> /\ Head(q) < window_start THEN PopExpired(Tail(q), window_start) ELSE q

\* the limit is reached only beyond `calls` recorded requests
IsRateLimitedBeyond(mw, client_id, now) ==
    LET q == PopExpired(Deque(mw.requests, client_id), now - mw.period)
    IN Returned([mw EXCEPT !.requests = Put(mw.requests, client_id, q)], Len(q) > mw.calls)

IsRateLimited(mw, client_id, now) ==
    LET q == PopExpired(Deque(mw.requests, client_id), now - mw.period)
    IN Returned([mw EXCEPT !.requests = Put(mw.requests, client_id, q)], Len(q) >= mw.calls)

RecordRequest(mw, client_id, now) ==
    [mw EXCEPT !.requests = Put(mw.requests, client_id, Append(Deque(mw.requests, client_id), now))]

GetRetryAfter(mw, client_id, now) ==
    IF Deque(mw.requests, client_id) = << >> THEN 0
    ELSE Max(0, Head(Deque(mw.requests, client_id)) + mw.period - now)

\* one round of _cleanup_old_requests, after its sleep
CleanupOldRequests(mw, now) ==
    LET kept == [c \in DOMAIN mw.requests |-> PopExpired(mw.requests[c], now - mw.period)]
    IN [mw EXCEPT !.requests = [c \in {x \in DOMAIN kept : kept[x] # << >>} |-> kept[c]]]

\* what the middleware decided for a request it checked: when it looked at the
\* clock to check the limit, and the time it recorded if it let the request
\* through
Decision(client_id, checked, at, outcome) ==
    [client_id |-> client_id, checked |-> checked, at |-> at, outcome |-> outcome]

\* time.time() read again after an earlier read `now`
LaterReads(now) == { t \in {now, now + 1} : t <= MaxClock }

LimiterInit ==
    /\ \E calls \in CallsTried, period \in PeriodsTried :
         middleware = NewRateLimitingMiddleware(calls, period, TRUE, ExcludePaths)
    /\ clock = 0
    /\ decisions = << >>
    /\ suspended = {}
    /\ srv_call = NoCall
    /\ heap = << >>
    /\ uploaded_data_store = EmptyStore
    /\ analysis_results_store = EmptyStore
    /\ uuid4 = 0
    /\ env = None
    /\ processor = NewProcessor
    /\ proc_call = NoCall
    /\ identifier = NewIdentifier
    /\ ident_call = NoCall
    /\ tsi = NewSession
    /\ tsi_call = NoCall

LimiterDo(op, args, out) ==
    /\ srv_call' = Call(op, args, out)
    /\ UNCHANGED << env, procVars, identVars, tsi, tsi_call,
                    heap, uploaded_data_store, analysis_results_store, uuid4 >>

\* a request arrives: dispatch up to its raise or its `await call_next`
dispatch ==
    \E request \in HttpRequests :
      LET client_id == GetClientId(middleware, request)
          n == Len(decisions) + 1
      IN /\ n <= MaxRequests
         /\ IF IsExcluded(middleware, request)
            THEN /\ LimiterDo("dispatch", request, Returned(middleware, "call_next"))
                 /\ UNCHANGED << middleware, clock, decisions, suspended >>
            ELSE \E limited \in {IsRateLimited(middleware, client_id, clock)} :
                   IF limited.ret
                   THEN /\ middleware' = limited.obj
                        /\ decisions' = Append(decisions, Decision(client_id, clock, clock, "rejected"))
                        /\ LimiterDo("dispatch", request,
                                     RaisedError(limited.obj,
                                        [ status_code |-> HttpTooManyRequests,
                                          retry_after |-> GetRetryAfter(limited.obj, client_id, clock) ]))
                        /\ UNCHANGED << clock, suspended >>
                   ELSE \E now \in LaterReads(clock) :
                        /\ middleware' = RecordRequest(limited.obj, client_id, now)
                        /\ clock' = now
                        /\ decisions' = Append(decisions, Decision(client_id, clock, now, "admitted"))
                        /\ suspended' = suspended \cup {n}
                        /\ LimiterDo("dispatch", request, Returned(limited.obj, "call_next"))

\* call_next has answered: dispatch reads self.requests[client_id] for the rate
\* limit headers, which stores an empty deque for a client that has none, and
\* returns
dispatch_resume ==
    \E n \in suspended :
      LET client_id == decisions[n].client_id
          q == Deque(middleware.requests, client_id)
      IN /\ suspended' = suspended \ {n}
         /\ middleware' = [middleware EXCEPT !.requests = Put(middleware.requests, client_id, q)]
         /\ UNCHANGED << env, procVars, identVars, tsi, tsi_call, heap, uploaded_data_store,
                         analysis_results_store, uuid4, srv_call, clock, decisions >>

\* the cleanup task wakes up
cleanup_old_requests ==
    /\ middleware' = CleanupOldRequests(middleware, clock)
    /\ UNCHANGED << env, procVars, identVars, tsi, tsi_call, heap, uploaded_data_store,
                    analysis_results_store, uuid4, srv_call, clock, decisions, suspended >>

\* a second goes by
Tick ==
    /\ clock < MaxClock
    /\ clock' = clock + 1
    /\ UNCHANGED << env, procVars, identVars, tsi, tsi_call, heap, uploaded_data_store,
                    analysis_results_store, uuid4, srv_call, middleware, decisions, suspended >>

LimiterNext == dispatch \/ dispatch_resume \/ cleanup_old_requests \/ Tick

(* AdaptiveRateLimitingMiddleware: a burst limit and a base limit over the *)
(* same deques; its dispatch has no await before its checks are done and   *)
(* nothing after `await call_next`.                                        *)

NewAdaptiveRateLimitingMiddleware(base_calls, base_period, burst_calls, burst_period) ==
    [ base_calls |-> base_calls, base_period |-> base_period,
      burst_calls |-> burst_calls, burst_period |-> burst_period,
      requests |-> EmptyStore ]

AdaptiveGetClientId(request) ==
    IF ~IsNone(request.forwarded_for) THEN Head(Val(request.forwarded_for))
    ELSE IF ~IsNone(request.host) THEN Val(request.host)
    ELSE "unknown"

\* the requests of the burst window are counted; nothing is removed
IsBurstLimited(mw, client_id, now) ==
    LET q == Deque(mw.requests, client_id)
        burst_count == Cardinality({ i \in 1..Len(q) : q[i] >= now - mw.burst_period })
    IN Returned([mw EXCEPT !.requests = Put(mw.requests, client_id, q)],
                burst_count >= mw.burst_calls)

\* the base limit is reached only beyond base_calls recorded requests
IsBaseLimitedBeyond(mw, client_id, now) ==
    LET q == PopExpired(Deque(mw.requests, client_id), now - mw.base_period)
    IN Returned([mw EXCEPT !.requests = Put(mw.requests, client_id, q)], Len(q) > mw.base_calls)

IsBaseLimited(mw, client_id, now) ==
    LET q == PopExpired(Deque(mw.requests, client_id), now - mw.base_period)
    IN Returned([mw EXCEPT !.requests = Put(mw.requests, client_id, q)], Len(q) >= mw.base_calls)

AdaptiveInit ==
    /\ \E base_calls \in CallsTried, burst_calls \in 1..3, base_period \in PeriodsTried :
         middleware = NewAdaptiveRateLimitingMiddleware(base_calls, base_period, burst_calls, 1)
    /\ clock = 0
    /\ decisions = << >>
    /\ suspended = {}
    /\ srv_call = NoCall
    /\ heap = << >>
    /\ uploaded_data_store = EmptyStore
    /\ analysis_results_store = EmptyStore
    /\ uuid4 = 0
    /\ env = None
    /\ processor = NewProcessor
    /\ proc_call = NoCall
    /\ identifier = NewIdentifier
    /\ ident_call = NoCall
    /\ tsi = NewSession
    /\ tsi_call = NoCall

\* a request arrives: dispatch up to its raise or its `await call_next`; each
\* check and the recording read the time anew
adaptive_dispatch ==
    \E request \in HttpRequests :
      LET client_id == AdaptiveGetClientId(request)
      IN \E burst \in {IsBurstLimited(middleware, client_id, clock)} :
           IF burst.ret
           THEN /\ middleware' = burst.obj
                /\ LimiterDo("dispatch", request,
                             RaisedError(burst.obj, [ status_code |-> HttpTooManyRequests,
                                                      limit |-> "burst" ]))
                /\ UNCHANGED << clock, decisions, suspended >>
           ELSE \E checked \in LaterReads(clock) :
                \E base \in {IsBaseLimited(burst.obj, client_id, checked)} :
                  IF base.ret
                  THEN /\ middleware' = base.obj
                       /\ clock' = checked
                       /\ LimiterDo("dispatch", request,
                                    RaisedError(base.obj, [ status_code |-> HttpTooManyRequests,
                                                            limit |-> "base" ]))
                       /\ UNCHANGED << decisions, suspended >>
                  ELSE \E now \in LaterReads(checked) :
                       /\ middleware' = RecordRequest(base.obj, client_id, now)
                       /\ clock' = now
                       /\ LimiterDo("dispatch", request, Returned(base.obj, "call_next"))
                       /\ UNCHANGED << decisions, suspended >>

AdaptiveNext == adaptive_dispatch \/ Tick

-----------------------------------------------------------------------------
(* Properties of the processor (SpecProc).                                 *)

\* C5: for any loaded series and any max_order >= 0, auto_difference(max_order)
\* returns an order with 0 <= order <= max_order.
C5_OrderWithinMaxOrder ==
    (proc_call.op = "auto_difference" /\ proc_call.ok) =>
        /\ 0 <= Val(proc_call.ret).order
        /\ Val(proc_call.ret).order <= Val(proc_call.args).max_order

\* the unit-root test never reports stationary within max_order differences,
\* after a combined test that ran and did not report stationary
Exhausted(max_order) ==
    /\ env.adf # "raises" /\ env.kpss # "raises"
    /\ ~(env.adf = "stationary" /\ env.kpss = "stationary")
    /\ \A k \in 1..max_order : env.adf_at[k] # "stationary"

\* C6: when auto_difference exhausts max_order without the unit-root test ever
\* reporting stationary, it does not fail: it returns the loaded series
\* differenced exactly once with order 1, and records both in the processor.
C6_FallbackDifferencesOnce ==
    ( /\ proc_call.op = "auto_difference"
      /\ ~IsNone(Val(proc_call.args).data)
      /\ Exhausted(Val(proc_call.args).max_order) ) =>
        LET once == Diff(Val(Val(proc_call.args).data))
        IN /\ proc_call.ok
           /\ Val(proc_call.ret) = [data |-> once, order |-> 1]
           /\ processor.differenced_data = Some(once)
           /\ processor.diff_order = 1

\* the fallback taken with the largest max_order on a series it shortens
C6_FallbackTaken ==
    /\ proc_call.op = "auto_difference" /\ proc_call.ok
    /\ Val(proc_call.args).max_order = MaxOrder
    /\ Exhausted(MaxOrder)
    /\ Len(Val(Val(proc_call.args).data)) = MaxLen
    /\ Val(proc_call.ret).order = 1
    /\ Len(Val(proc_call.ret).data) = MaxLen - 1

\* C7: the combined verdict of check_stationarity is stationary exactly when
\* both tests report stationary (non-stationary when both report non-stationary
\* and when they disagree), and is_stationary equals the returned verdict.
C7_OverallIsConjunction ==
    (proc_call.op = "check_stationarity" /\ proc_call.ok /\ Val(proc_call.args).method = "both") =>
        LET r == Val(proc_call.ret)
        IN /\ r.adf = Some(env.adf = "stationary")
           /\ r.kpss = Some(env.kpss = "stationary")
           /\ r.overall = (env.adf = "stationary" /\ env.kpss = "stationary")
           /\ processor.is_stationary = r.overall

\* the two tests disagree and the verdict is non-stationary
C7_Disagreement ==
    /\ proc_call.op = "check_stationarity" /\ proc_call.ok
    /\ Val(proc_call.args).method = "both"
    /\ env.adf = "stationary" /\ env.kpss = "nonstationary"
    /\ ~processor.is_stationary

(* Properties of the identifier (SpecIdent, SpecPattern).                  *)

\* C8: identify_arima_order returns between 1 and 10 candidates for every d,
\* every max_p, max_q >= 1 and every pair of patterns, white noise included.
C8_OneToTenCandidates ==
    ident_call.op = "identify" =>
        /\ Len(Val(ident_call.ret)) >= 1
        /\ Len(Val(ident_call.ret)) <= 10
        /\ identifier.recommended_models = Val(ident_call.ret)

\* neither profile has a significant lag, and candidates are returned
C8_WhiteNoiseCandidates ==
    /\ ident_call.op = "identify"
    /\ SignificantLags(env.acf.values, env.acf.confint) = {}
    /\ SignificantLags(env.pacf.values, env.pacf.confint) = {}
    /\ Len(Val(ident_call.ret)) >= 1

\* C9: every candidate order (p, d, q) returned by identify_arima_order respects
\* the caller's maxima: p <= max_p and q <= max_q.
C9_OrdersWithinMaxima ==
    ident_call.op = "identify" =>
        \A i \in 1..Len(Val(ident_call.ret)) :
            /\ Val(ident_call.ret)[i].order[1] <= Val(ident_call.args).max_p
            /\ Val(ident_call.ret)[i].order[3] <= Val(ident_call.args).max_q

\* C10: a profile with no significant lag (lag 0 excluded) classifies as white
\* noise with cutoff_lag 0; a profile whose only significant lag is lag 1
\* classifies as cutoff with cutoff_lag 1.
C10_WhiteNoiseAndLagOne ==
    ident_call.op = "pattern" =>
        LET profile == Val(ident_call.args)
            r == Val(ident_call.ret)
            significant == { k \in 1..(Len(profile.values) - 1) :
                               IsSignificant(profile.values, profile.confint, k + 1) }
        IN /\ significant = {} => (r.pattern_type = "white_noise" /\ r.cutoff_lag = 0)
           /\ significant = {1} => (r.pattern_type = "cutoff" /\ r.cutoff_lag = 1)

\* a profile of MaxLags lags, without confidence band, significant at lag 1 only
C10_OnlyLagOne ==
    /\ ident_call.op = "pattern"
    /\ Len(Val(ident_call.args).values) = MaxLags + 1
    /\ IsNone(Val(ident_call.args).confint)
    /\ { k \in 1..MaxLags : IsSignificant(Val(ident_call.args).values, None, k + 1) } = {1}
    /\ Val(ident_call.ret).pattern_type = "cutoff"

(* Properties of the session (Spec).                                       *)

\* C1: analyze() on a session with no loaded data fails, and predict() on a
\* session that has not completed an analyze() fails; in both cases the
\* session's data and analysis results are left unchanged.
C1_FailsAndLeavesSession ==
    [][ /\ (tsi_call'.op = "analyze" /\ IsNone(tsi.data)) =>
              /\ ~tsi_call'.ok
              /\ tsi'.data = tsi.data
              /\ tsi'.analysis_results = tsi.analysis_results
        /\ (tsi_call'.op = "predict" /\ IsNone(tsi.analysis_results)) =>
              /\ ~tsi_call'.ok
              /\ tsi'.data = tsi.data
              /\ tsi'.analysis_results = tsi.analysis_results ]_vars

\* predict has failed on a session with data and no analysis
C1_PredictBeforeAnalyze ==
    /\ tsi_call.op = "predict" /\ ~tsi_call.ok
    /\ ~IsNone(tsi.data)
    /\ IsNone(tsi.analysis_results)

C12_ForecastNeedsHandle ==
    (tsi_call.op = "predict") =>
        LET best_model == GetBestModel(tsi)
            has_handle == /\ ~IsNone(best_model)
                          /\ ~IsNone(Val(best_model).estimation.mle.fitted_model)
        IN /\ tsi_call.ok => has_handle
           /\ ~has_handle => (~tsi_call.ok /\ tsi_call.ret = Some("ValueError"))

\* predict has failed on a session whose best model was retained without handle
C12_BestWithoutHandle ==
    /\ tsi_call.op = "predict" /\ ~tsi_call.ok
    /\ ~IsNone(GetBestModel(tsi))
    /\ IsNone(Val(GetBestModel(tsi)).estimation.mle.fitted_model)
    /\ Val(GetBestModel(tsi)).evaluation.success

\* C13: generate_evaluation_report never raises when the fit fails: it returns
\* a report with success = false and an error message, without a residual
\* analysis and without an adequacy score, and the report is not kept.
C13_FailedFitReportsAtOnce ==
    (/\ tsi_call.op = "generate_evaluation_report"
     /\ ~env.fits[Val(tsi_call.args).order].success) =>
        /\ tsi_call.ok
        /\ ~Val(tsi_call.ret).success
        /\ ~IsNone(Val(tsi_call.ret).error)
        /\ IsNone(Val(tsi_call.ret).residual_analysis)
        /\ IsNone(Val(tsi_call.ret).model_adequacy)
        /\ tsi.evaluator.evaluation_results # tsi_call.ret

\* a report was asked for an order whose fit fails after its residuals are stored
C13_FailedAfterResiduals ==
    /\ tsi_call.op = "generate_evaluation_report"
    /\ env.fits[Val(tsi_call.args).order].stage = "stats"
    /\ tsi.evaluator.residuals = Some(Val(tsi_call.args).order)

\* C14: the residual score is 100 minus the penalties that apply (10 if
\* |mean| > 0.1 std, 15 if the normality test reports non-normal, 20 if the
\* autocorrelation test reports autocorrelation, 10 if |skewness| > 1, 10 if
\* |kurtosis| > 3); the grade is excellent from 90, good from 75, fair from 60,
\* poor below; the issues are exactly the penalised conditions.
C14_ScoreIsHundredMinusPenalties ==
    (tsi_call.op = "_assess_residuals") =>
        LET r == Val(tsi_call.ret)
            mean_off == 10 * Abs(env.basic_stats.mean) > env.basic_stats.std
            not_normal == env.normality_tests.jarque_bera \in {Some(4), Some(5)}
            autocorrelated == env.autocorr_tests.ljung_box \in {Some(4), Some(5)}
            skewed == env.basic_stats.skewness \notin (-Scale)..Scale
            peaked == env.basic_stats.kurtosis \notin (-3 * Scale)..(3 * Scale)
            expected == 100 - (IF mean_off THEN 10 ELSE 0) - (IF not_normal THEN 15 ELSE 0)
                            - (IF autocorrelated THEN 20 ELSE 0) - (IF skewed THEN 10 ELSE 0)
                            - (IF peaked THEN 10 ELSE 0)
            named == { r.issues[i] : i \in 1..Len(r.issues) }
        IN /\ r.score = expected
           /\ r.grade = (IF expected >= 90 THEN "excellent"
                         ELSE IF expected >= 75 THEN "good"
                         ELSE IF expected >= 60 THEN "fair" ELSE "poor")
           /\ Cardinality(named) = Len(r.issues)
           /\ "mean_off_zero" \in named <=> mean_off
           /\ "not_normal" \in named <=> not_normal
           /\ "autocorrelated" \in named <=> autocorrelated
           /\ "skewness" \in named <=> skewed
           /\ "kurtosis" \in named <=> peaked

\* residuals with every one of the five conditions were assessed
C14_AllFivePenalised ==
    /\ tsi_call.op = "_assess_residuals"
    /\ Len(Val(tsi_call.ret).issues) = 5
    /\ Val(tsi_call.ret).grade = "poor"

\* C15: estimate_parameters(series, (p, d, q)) takes the AR moment estimator iff
\* p > 0 and q = 0, the MA moment estimator iff p = 0 and q > 0, and for p > 0
\* and q > 0 gives a moments entry with success = false and a message, without
\* raising; the MLE entry of the same order is produced in every case.
C15_MomentsByOrder ==
    (tsi_call.op = "estimate_parameters") =>
        LET order == Val(tsi_call.args).order
            r == Val(tsi_call.ret)
        IN /\ tsi_call.ok
           /\ r.moments.estimator = "ar" <=> (order[1] > 0 /\ order[3] = 0)
           /\ r.moments.estimator = "ma" <=> (order[1] = 0 /\ order[3] > 0)
           /\ (order[1] > 0 /\ order[3] > 0) =>
                 (~r.moments.success /\ r.moments.error = Some("arma_unsupported"))
           /\ r.mle.order = order
           /\ r.mle.success <=> env.mle_ok
           /\ tsi.estimator.mle_estimates = Some(r.mle)

\* the parameters of a mixed order were estimated, and its MLE went through
C15_MixedOrder ==
    /\ tsi_call.op = "estimate_parameters"
    /\ Val(tsi_call.args).order[1] > 0
    /\ Val(tsi_call.args).order[3] > 0
    /\ Val(tsi_call.ret).mle.success

\* C16: for p = 1 and a series of non-zero variance, estimate_ar_moments returns
\* success = true with exactly one AR coefficient, gamma(1) / gamma(0).
C16_ArOneClosedForm ==
    (/\ tsi_call.op = "estimate_ar_moments"
     /\ Val(tsi_call.args).p = 1
     /\ Len(env.series) >= 2
     /\ \E t \in 1..Len(env.series) : env.series[t] # env.series[1]) =>
        LET r == Val(tsi_call.ret)
        IN /\ r.success
           /\ Len(r.ar_params) = 1
           /\ r.ar_params[1] = Ratio(Autocovariance(env.series, 1),
                                     Autocovariance(env.series, 0))

\* C17: for a loaded series S of n >= 2 values, difference(order=1) returns the
\* n - 1 consecutive differences S[i+1] - S[i] in order, so that S's first value
\* plus their running sum gives S back; the call records diff_order = 1 and
\* leaves the loaded series unchanged.
C17_FirstDifferenceInvertible ==
    [][ (/\ proc_call'.op = "difference"
         /\ Val(proc_call'.args).order = 1
         /\ Val(proc_call'.args).seasonal_order = 0
         /\ ~IsNone(processor.data)
         /\ Len(Val(processor.data)) >= 2) =>
            LET S == Val(processor.data)
                n == Len(S)
            IN /\ proc_call'.ok
               /\ Len(Val(proc_call'.ret)) = n - 1
               /\ \A i \in 1..(n - 1) : Val(proc_call'.ret)[i] = S[i + 1] - S[i]
               /\ \A j \in 1..n :
                    S[1] + SumSeq(SubSeq(Val(proc_call'.ret), 1, j - 1)) = S[j]
               /\ processor'.diff_order = 1
               /\ processor'.differenced_data = proc_call'.ret
               /\ processor'.data = processor.data ]_vars

\* a series of the greatest length that does not rise evenly was differenced once
C17_DifferencedOnce ==
    /\ proc_call.op = "difference" /\ proc_call.ok
    /\ Val(proc_call.args).order = 1
    /\ Val(proc_call.args).seasonal_order = 0
    /\ Len(Val(processor.data)) = MaxLen
    /\ Val(proc_call.ret)[1] # Val(proc_call.ret)[2]

\* C18: load_data returns and stores the input with exactly its missing entries
\* removed and the others in their original order, so the loaded series has no
\* missing value and its length is the input's less the number of missing
\* entries.
C18_OnlyMissingRemoved ==
    (proc_call.op = "load_data" /\ proc_call.ok) =>
        LET present == SelectSeq(env.series, LAMBDA entry : ~IsNone(entry))
            loaded == Val(proc_call.ret)
        IN /\ processor.data = Some(loaded)
           /\ Len(loaded) = Len(env.series)
                             - Cardinality({i \in 1..Len(env.series) : IsNone(env.series[i])})
           /\ Len(loaded) = Len(present)
           /\ \A i \in 1..Len(present) : Some(loaded[i]) = ToNumeric(present[i])

\* C19: auto_difference returns the undifferenced series with order 0 when the
\* combined test reports stationary; otherwise, when the unit-root test alone
\* reports some k-times differenced series (k in 1..max_order) stationary, it
\* returns the smallest such k with the series differenced exactly k times;
\* the processor's differenced_data and diff_order equal the returned pair.
C19_SmallestStationaryOrder ==
    (proc_call.op = "auto_difference" /\ proc_call.ok) =>
        LET data == Val(Val(proc_call.args).data)
            max_order == Val(proc_call.args).max_order
            ret == Val(proc_call.ret)
            found == {k \in 1..max_order : env.adf_at[k] = "stationary"}
        IN /\ processor.differenced_data = Some(ret.data)
           /\ processor.diff_order = ret.order
           /\ processor.is_stationary => ret = [data |-> data, order |-> 0]
           /\ (~processor.is_stationary /\ found # {}) =>
                 /\ ret.order \in found
                 /\ \A k \in found : ret.order <= k
                 /\ ret.data = DiffN(data, ret.order)

\* the highest order allowed was the first whose differenced series tested stationary
C19_SecondOrderFound ==
    /\ proc_call.op = "auto_difference" /\ proc_call.ok
    /\ Val(proc_call.args).max_order = MaxOrder
    /\ env.adf_at[1] # "stationary"
    /\ env.adf_at[MaxOrder] = "stationary"
    /\ Val(proc_call.ret).order = MaxOrder
    /\ Len(Val(Val(proc_call.args).data)) = MaxLen

\* C20: the proposals identify_arima_order takes from the patterns (those not
\* added as common models) follow the Box-Jenkins rules: ACF cutoff with PACF
\* tail-off gives only MA(min(cutoff, max_q)); PACF cutoff with ACF tail-off
\* gives only AR(min(cutoff, max_p)), neither of them when that order is 0;
\* both tail-off give the grid ARMA(p, q),
\* p in 1..min(3, max_p), q in 1..min(3, max_q); any other pair gives AR(p) of
\* the highest significant PACF lag and MA(q) of the highest significant ACF
\* lag, each capped and each only if there is a significant lag.
C20_BoxJenkinsRules ==
    (ident_call.op = "identify") =>
        LET max_p == Val(ident_call.args).max_p
            max_q == Val(ident_call.args).max_q
            d == Val(ident_call.args).d
            acf_pattern == IdentifyCutoffPattern(env.acf.values, env.acf.confint)
            pacf_pattern == IdentifyCutoffPattern(env.pacf.values, env.pacf.confint)
            acf_lags == SignificantLags(env.acf.values, env.acf.confint)
            pacf_lags == SignificantLags(env.pacf.values, env.pacf.confint)
            proposed == SelectSeq(Val(ident_call.ret), LAMBDA m : m.confidence # ConfCommon)
            ar == IF pacf_lags = {} THEN << >>
                  ELSE << <<Min(SetMax(pacf_lags), max_p), d, 0>> >>
            ma == IF acf_lags = {} THEN << >>
                  ELSE << <<0, d, Min(SetMax(acf_lags), max_q)>> >>
            grid == { <<p, d, q>> : p \in 1..Min(3, max_p), q \in 1..Min(3, max_q) }
        IN IF acf_pattern.pattern_type = "cutoff" /\ pacf_pattern.pattern_type = "tailoff"
           THEN /\ Orders(proposed) = { <<0, d, q>> : q \in {Min(acf_pattern.cutoff_lag, max_q)} \ {0} }
                /\ Len(proposed) <= 1
           ELSE IF pacf_pattern.pattern_type = "cutoff" /\ acf_pattern.pattern_type = "tailoff"
           THEN /\ Orders(proposed) = { <<p, d, 0>> : p \in {Min(pacf_pattern.cutoff_lag, max_p)} \ {0} }
                /\ Len(proposed) <= 1
           ELSE IF acf_pattern.pattern_type = "tailoff" /\ pacf_pattern.pattern_type = "tailoff"
           THEN /\ Orders(proposed) = grid
                /\ Len(proposed) = Cardinality(grid)
           ELSE /\ Orders(proposed) = { ar[i] : i \in 1..Len(ar) } \cup { ma[i] : i \in 1..Len(ma) }
                /\ Len(proposed) = Len(ar) + Len(ma)

\* both patterns tail off and the grid was proposed
C20_BothTailOff ==
    /\ ident_call.op = "identify"
    /\ IdentifyCutoffPattern(env.acf.values, env.acf.confint).pattern_type = "tailoff"
    /\ IdentifyCutoffPattern(env.pacf.values, env.pacf.confint).pattern_type = "tailoff"
    /\ Val(ident_call.args).max_p = MaxArg
    /\ Len(Val(ident_call.ret)) = KeepTop

C22_TailOffNeedsDecayFromSix ==
    (ident_call.op = "pattern") =>
        LET profile == Val(ident_call.args)
            r == Val(ident_call.ret)
            significant == { k \in 0..(Len(profile.values) - 2) :
                               IsSignificant(profile.values, profile.confint, k + 2) }
            L == IF significant = {} THEN -1 ELSE SetMax(significant)
            from == IF L - 3 > 0 THEN L - 3 ELSE 0
            window == [i \in 1..(L - from + 1) |-> Abs(profile.values[from + i + 1])]
            decays == L >= 5 /\ TrendIsDecay(window)
        IN /\ r.pattern_type = "tailoff" <=> decays
           /\ (L >= 0 /\ ~decays) => r.pattern_type = "cutoff"
           /\ r.pattern_type # "white_noise" => r.cutoff_lag = L + 1
           /\ L = -1 <=> r.pattern_type = "white_noise"

\* a profile without confidence band was classified as tail-off at the last lag
C22_TailOffReported ==
    /\ ident_call.op = "pattern"
    /\ Val(ident_call.ret).pattern_type = "tailoff"
    /\ Val(ident_call.ret).cutoff_lag = MaxLags
    /\ IsNone(Val(ident_call.args).confint)

\* C23: the adequacy score is 20 plus the R-squared points (20 above 0.8, 15
\* above 0.6, 10 above 0.4, else 5) plus the integer part of 0.6 times the
\* residual score, capped at 100; the level is high from 85, medium from 70,
\* fair from 55, low below; the score lies in 0..100 for every residual score
\* in 0..100.
C23_AdequacyScore ==
    (/\ tsi_call.op = "_assess_model_adequacy"
     /\ ~IsNone(env.residual_analysis.overall_assessment)) =>
        LET r == Val(tsi_call.ret)
            r_squared == env.fit_result.r_squared
            residual_score == Val(env.residual_analysis.overall_assessment).score
            points == IF 10 * r_squared > 8 * Scale THEN 20
                      ELSE IF 10 * r_squared > 6 * Scale THEN 15
                      ELSE IF 10 * r_squared > 4 * Scale THEN 10
                      ELSE 5
        IN /\ \E share \in 0..60 :
                /\ 10 * share <= 6 * residual_score
                /\ 6 * residual_score < 10 * (share + 1)
                /\ r.score = (IF 20 + points + share > 100 THEN 100 ELSE 20 + points + share)
           /\ r.score \in 0..100
           /\ r.level = (IF r.score >= 85 THEN "high"
                         ELSE IF r.score >= 70 THEN "medium"
                         ELSE IF r.score >= 55 THEN "fair" ELSE "low")

\* a residual score whose share is not a whole number was scored, at R-squared 0.81
C23_FractionalShare ==
    /\ tsi_call.op = "_assess_model_adequacy"
    /\ env.residual_analysis.overall_assessment = Some([score |-> 99])
    /\ env.fit_result.r_squared = 4 * (Scale \div 5) + 1
    /\ Val(tsi_call.ret).score = 99

\* C24: in estimate_ar_moments, for every lag k in 1..p, gamma(k) is the lag-k
\* sample autocovariance of the mean-centred series: the mean over t of the
\* products x[t] * x[t+k], each observation paired with the one k positions
\* later.
C24_GammaIsLaggedProduct ==
    (/\ tsi_call.op = "estimate_ar_moments"
     /\ Val(tsi_call.ret).success) =>
        LET p == Val(tsi_call.args).p
            gamma == Val(tsi_call.ret).autocovariances
            n == Len(env.series)
            x == Centred(env.series)
        IN \A k \in 1..p :
             n > k =>
               LET products == SumSeq([t \in 1..(n - k) |-> x[t] * x[t + k]])
               IN /\ gamma[k + 1].den # 0
                  /\ gamma[k + 1].num * (n * n * (n - k)) = products * gamma[k + 1].den

\* C25: RateLimitingMiddleware admits, per client id, at most `calls` requests
\* within any window of `period` seconds, whatever the order of requests,
\* resumptions and cleanup rounds: a request is rejected (429) exactly when
\* `calls` admitted requests of its client lie within the `period` seconds
\* before its check; the deque of a client holds the recorded times of its
\* admitted requests and of no other request, all of them that have not
\* expired; and a request whose path starts with an excluded path is passed on.
C25_SlidingWindow ==
    LET mw == middleware
        admitted(c) == SelectSeq(decisions, LAMBDA d : d.client_id = c /\ d.outcome = "admitted")
        times(c) == [k \in 1..Len(admitted(c)) |-> admitted(c)[k].at]
        clients == { decisions[i].client_id : i \in 1..Len(decisions) } \cup DOMAIN mw.requests
    IN /\ \A c \in clients, start \in 0..MaxClock :
            Cardinality({ k \in 1..Len(times(c)) :
                            start <= times(c)[k] /\ times(c)[k] <= start + mw.period }) <= mw.calls
       /\ \A i \in 1..Len(decisions) :
            (decisions[i].outcome = "rejected") <=>
                Cardinality({ j \in 1..(i - 1) :
                                /\ decisions[j].client_id = decisions[i].client_id
                                /\ decisions[j].outcome = "admitted"
                                /\ decisions[j].at >= decisions[i].checked - mw.period }) >= mw.calls
       /\ \A c \in clients :
            LET q == Deque(mw.requests, c)
                gone == Len(times(c)) - Len(q)
            IN /\ gone >= 0
               /\ q = SubSeq(times(c), gone + 1, Len(times(c)))
               /\ \A k \in 1..gone : times(c)[k] < clock - mw.period
       /\ (srv_call.op = "dispatch" /\ IsExcluded(mw, Val(srv_call.args))) =>
            /\ srv_call.ok
            /\ Val(srv_call.ret) = "call_next"

\* a client was rejected and, its window having passed, admitted again
C25_RejectedThenAdmitted ==
    \E i, j \in 1..Len(decisions) :
      /\ i < j
      /\ decisions[i].client_id = decisions[j].client_id
      /\ decisions[i].outcome = "rejected"
      /\ decisions[j].outcome = "admitted"

\* C30: in AdaptiveRateLimitingMiddleware no client ever has more than
\* base_calls recorded timestamps, and when burst_calls > base_calls every
\* rejection comes from the base limit, none from the burst limit.
C30_BurstLimitUnreachable ==
        /\ \A c \in DOMAIN middleware.requests :
              Len(middleware.requests[c]) <= middleware.base_calls
        /\ (srv_call.op = "dispatch" /\ ~srv_call.ok
              /\ middleware.burst_calls > middleware.base_calls) =>
                 Val(srv_call.ret).limit = "base"

\* with burst_calls above base_calls a client that holds base_calls recorded
\* timestamps is rejected
C30_RejectedAtBaseLimit ==
    /\ middleware.burst_calls > middleware.base_calls
    /\ srv_call.op = "dispatch" /\ ~srv_call.ok
    /\ \E c \in DOMAIN middleware.requests :
          Len(middleware.requests[c]) = middleware.base_calls

C27_DifferencingConsistent ==
    (tsi_call.op = "analyze" /\ tsi_call.ok) =>
        LET r == Val(tsi_call.ret)
            d == r.differencing.order
        IN /\ r.differencing.applied <=> d >= 1
           /\ r.differencing.applied =>
                (Val(tsi_call.args).auto_diff /\ ~r.stationarity.overall)
           /\ \A i \in 1..Len(r.recommended_models) : r.recommended_models[i].order[2] = d
           /\ \A i \in 1..Len(r.model_evaluation) : r.model_evaluation[i].order[2] = d
           /\ ~IsNone(r.best_model) => Val(r.best_model).order[2] = d

\* an analysis that differenced the series DefaultMaxOrder times and found a
\* best model
C27_DifferencedAndFitted ==
    /\ tsi_call.op = "analyze" /\ tsi_call.ok
    /\ Val(tsi_call.ret).differencing.applied
    /\ Val(tsi_call.ret).differencing.order = DefaultMaxOrder
    /\ ~IsNone(Val(tsi_call.ret).best_model)

\* C28: the best model a session exposes belongs to the series it holds: when
\* load_data replaces the series of a session that was already analysed,
\* get_best_model() then returns None and predict() fails (until analyze() is
\* run again), so that no forecast comes from a model fitted to an earlier
\* series.
C28_ReloadInvalidatesModel ==
    [][ ( /\ tsi_call'.op = "load_data" /\ tsi_call'.ok
          /\ ~IsNone(tsi.analysis_results)
          /\ tsi'.data # tsi.data )
        => /\ IsNone(GetBestModel(tsi'))
           /\ \A steps \in StepsTried : ~Predict(tsi', steps).ok ]_vars

\* C29: the evaluator's residuals are those of its most recent fit: when
\* fit_model has returned success = false, the analyze_residuals() that follows
\* returns no diagnostics computed from the residuals of an earlier,
\* successfully fitted model.
C29_FailedFitDropsResiduals ==
    [][ ( /\ tsi_call.op = "fit_model"
          /\ ~Val(tsi_call.ret).success
          /\ tsi_call'.op = "analyze_residuals" )
        => ( IsNone(Val(tsi_call'.ret).error)
               => Val(tsi_call'.ret).residuals = Some(Val(tsi_call.args).order) ) ]_vars

\* C2: after analyze(), best_model is the successfully evaluated candidate of
\* minimal AIC, and among several of minimal AIC the one listed first.
C2_BestIsFirstMinimalAic ==
    (tsi_call.op = "analyze" /\ tsi_call.ok) =>
        LET r == Val(tsi_call.ret)
            ms == r.model_evaluation
        IN /\ GetBestModel(tsi) = r.best_model
           /\ ms # << >> =>
                \E i \in 1..Len(ms) :
                    /\ r.best_model = Some(ms[i])
                    /\ \A j \in 1..Len(ms) : ms[j].evaluation.aic >= ms[i].evaluation.aic
                    /\ \A j \in 1..(i - 1) : ms[j].evaluation.aic > ms[i].evaluation.aic

\* two candidates share the minimal AIC and the first of them is the best model
C2_TieGoesToFirst ==
    /\ tsi_call.op = "analyze" /\ tsi_call.ok
    /\ Len(Val(tsi_call.ret).model_evaluation) >= 2
    /\ \E i \in 1..Len(Val(tsi_call.ret).model_evaluation) :
         \E j \in (i + 1)..Len(Val(tsi_call.ret).model_evaluation) :
            LET ms == Val(tsi_call.ret).model_evaluation
            IN /\ ms[i].evaluation.aic = ms[j].evaluation.aic
               /\ \A k \in 1..Len(ms) : ms[k].evaluation.aic >= ms[i].evaluation.aic
               /\ ms[i] # ms[j]
               /\ GetBestModel(tsi) = Some(ms[i])

\* C3: a candidate whose evaluation fails never aborts analyze(): model_evaluation
\* is the subsequence, in recommendation order, of the first n_models recommended
\* candidates whose evaluation succeeds; when none succeeds analyze() returns
\* with an empty model_evaluation and get_best_model() is None.
C3_FailedCandidatesAreSkipped ==
    tsi_call.op = "analyze" =>
        /\ tsi_call.ok <=> (~IsNone(tsi.data) /\ env.adf # "raises" /\ env.kpss # "raises")
        /\ tsi_call.ok =>
             LET r == Val(tsi_call.ret)
                 ms == r.model_evaluation
                 n == Min(Val(tsi_call.args).n_models, Len(r.recommended_models))
                 succeeded == { i \in 1..n : env.fits[i].success }
             IN /\ Len(ms) = Cardinality(succeeded)
                /\ \A k \in 1..Len(ms) :
                      LET i == CHOOSE x \in succeeded : Cardinality({ y \in succeeded : y <= x }) = k
                      IN /\ ms[k].model_info = r.recommended_models[i]
                         /\ ms[k].order = r.recommended_models[i].order
                         /\ ms[k].evaluation.success
                /\ ms = << >> => (IsNone(r.best_model) /\ IsNone(GetBestModel(tsi)))

\* every one of the MaxNModels candidates failed and analyze returned
C3_NoCandidateSucceeded ==
    /\ tsi_call.op = "analyze" /\ tsi_call.ok
    /\ Val(tsi_call.args).n_models = MaxNModels
    /\ \A i \in 1..MaxNModels : ~env.fits[i].success
    /\ Val(tsi_call.ret).model_evaluation = << >>
    /\ IsNone(GetBestModel(tsi))

(* Properties of the serving layer (SpecServer).                           *)

\* what requests for analysis_id answer: the summary and, for each number of
\* steps, the forecast (None when the request fails)
Answers(analysis_id) ==
    LET sess == heap[analysis_results_store[analysis_id].tsi]
    IN [ summary |-> GetSummary(sess),
         model |-> GetBestModel(sess),
         forecast |-> [steps \in StepsTried |->
                          IF Predict(sess, steps).ok THEN Some(Predict(sess, steps).ret) ELSE None] ]

\* C4: for any two distinct analysis IDs A and B, running, predicting on or
\* deleting B never changes the model, summary or forecast that requests for A
\* return.
C4_AnalysesAreIsolated ==
    [][ \A a \in DOMAIN analysis_results_store \cap DOMAIN analysis_results_store' :
          ( /\ srv_call'.op \in {"analyze_time_series", "predict_time_series", "delete_analysis_result"}
            /\ Val(srv_call'.args) # a )
          => Answers(a)' = Answers(a) ]_vars

-----
(* Specifications.                                                         *)

Spec == SessInit /\ [][SessNext]_vars

SpecForecast == ForecastInit /\ [][ForecastNext]_vars
SpecEvaluator == EvalInit /\ [][EvalNext]_vars
SpecResiduals == ResidualsInit /\ [][EAssessResiduals]_vars
SpecEstimator == EstInit /\ [][EstNext]_vars
SpecAdequacy == AdequacyInit /\ [][EAssessModelAdequacy]_vars
SpecServer == ServerInit /\ [][ServerNext]_vars
SpecStores == StoresInit /\ [][ServerNext]_vars
SpecLimiter == LimiterInit /\ [][LimiterNext]_vars
SpecAdaptive == AdaptiveInit /\ [][AdaptiveNext]_vars

SpecProc == ProcInit /\ [][ProcNext]_vars

SpecSeries == SeriesInit /\ [][SeriesNext]_vars

SpecPattern == PatternInit /\ [][IPattern]_vars

SpecIdent == IdentInit /\ [][IIdentify]_vars

====
